---- MODULE Spec2Model ----
(***************************************************************************)
(* Model of the translation worker of transearly-api:                      *)
(* TranslatorProcessor.handleTranslation and the operations it drives      *)
(* (translateChunk, chunkAndTranslateText, processPptx,                    *)
(* processAndCreateXlsx, the create* reconstructors), together with the    *)
(* EventsGateway it notifies and the translated-files directory it writes. *)
(*                                                                         *)
(* A text is a sequence of tokens: one-character strings for content, and  *)
(* one token for each string literal of the source.                        *)
(***************************************************************************)
EXTENDS Integers, Sequences, FiniteSets, TLC

\* ------------------------------------------------------------------ bounds

\* chunks of a text document / distinct cell texts, in Spec
MaxChunks == 2
\* slides of a presentation, in Spec
MaxSlides == 2
\* remote calls one presentation needs in total, in Spec
MaxCalls == 3
\* cells of a spreadsheet
MaxCells == 2
\* chunks of the text document of SpecLoad beyond the limiter's width
MaxOver == 1
\* slides of the presentation of SpecSlides beyond the limiter's width
MaxSlidesOver == 1
\* parts of a presentation archive, in SpecDeck
MaxParts == 3
\* data rows of a CSV file, in SpecCsv
MaxRows == 2
\* paragraphs the OCR service reports for an image, in SpecImage
MaxParagraphs == 3
\* paragraphs the OCR service reports for an image, in SpecBoxed
MaxBoxed == 1
\* chunks per slide of the multi-chunk presentation of SpecSlides
MaxSlideChunks == 2

\* the most results the speech service reports
MaxResults == 3
\* the most download requests, and the most of one name open at a time
MaxDownloads == 3
MaxOpen == 2
\* the most status requests
MaxQueries == 2
\* characters of a text given to wrapText
MaxTextLen == 5
\* the widest maxWidth wrapText is called with, in glyph widths
MaxLineWidth == 4
\* slots of the worker pool that hold a job at the same time
MaxWorkers == 2

\* -------------------------------------------------------- program constants

\* pLimit(10) of chunkAndTranslateText and processAndCreateXlsx
ChunkLimit == 10
\* pLimit(5) of processPptx
SlideLimit == 5
\* text.substring(0, 50) of translateChunk's placeholder
PreviewLen == 50

\* ------------------------------------------------------------------- texts

Min(a, b) == IF a < b THEN a ELSE b

RECURSIVE Join(_, _)
\* Array.prototype.join(sep) on an array of texts
Join(arr, sep) ==
    IF Len(arr) = 0 THEN << >>
    ELSE IF Len(arr) = 1 THEN arr[1]
    ELSE arr[1] \o sep \o Join(Tail(arr), sep)

\* String.prototype.substring(0, n)
Substring0(text, n) == SubSeq(text, 1, Min(n, Len(text)))

\* the separator '\n\n' of chunkAndTranslateText
BlankLine == << "\n", "\n" >>

\* String.prototype.trim() leaves something
IsWhite(c) == c \in {" ", "\n", "\t"}
NonBlank(text) == \E k \in 1..Len(text) : ~IsWhite(text[k])

RECURSIVE Trim(_)
\* String.prototype.trim()
Trim(text) ==
    IF Len(text) = 0 THEN text
    ELSE IF IsWhite(text[1]) THEN Trim(Tail(text))
    ELSE IF IsWhite(text[Len(text)]) THEN Trim(SubSeq(text, 1, Len(text) - 1))
    ELSE text

RECURSIVE Split(_, _)
\* String.prototype.split(sep), sep not empty
Split(text, sep) ==
    LET n == Len(sep)
        hits == {k \in 1..(Len(text) - n + 1) : SubSeq(text, k, k + n - 1) = sep}
    IN  IF hits = {} THEN << text >>
        ELSE LET k == CHOOSE h \in hits : \A j \in hits : h <= j
             IN  << SubSeq(text, 1, k - 1) >>
                     \o Split(SubSeq(text, k + n, Len(text)), sep)

\* the field delimiter '|||' of processCsv and createCsv
Delim == << "|", "|", "|" >>

\* String.prototype.toLowerCase, on the letters file names use here
LowerChar(c) ==
    CASE c = "T" -> "t" [] c = "X" -> "x" [] c = "P" -> "p"
      [] c = "D" -> "d" [] c = "F" -> "f" [] c = "S" -> "s"
      [] c = "L" -> "l" [] OTHER -> c
ToLowerCase(s) == [k \in 1..Len(s) |-> LowerChar(s[k])]

\* path.extname: from the last '.' of the base name, '' when there is none
\* or when the name starts with it
LastDot(s) ==
    LET dots == {k \in 1..Len(s) : s[k] = "."}
    IN  IF dots = {} THEN 0 ELSE CHOOSE k \in dots : \A j \in dots : j <= k
ExtName(s) ==
    IF LastDot(s) <= 1 THEN << >> ELSE SubSeq(s, LastDot(s), Len(s))

\* the extensions handleTranslation dispatches on
ExtPptx == << ".", "p", "p", "t", "x" >>
ExtXlsx == << ".", "x", "l", "s", "x" >>
ExtXls  == << ".", "x", "l", "s" >>
ExtPdf  == << ".", "p", "d", "f" >>
ExtDocx == << ".", "d", "o", "c", "x" >>
ExtCsv  == << ".", "c", "s", "v" >>
ExtTxt  == << ".", "t", "x", "t" >>

TextExts == {ExtPdf, ExtDocx, ExtCsv, ExtTxt}
SheetExts == {ExtXlsx, ExtXls}

\* ------------------------------------------------------------ input space

\* the file names jobs are enqueued with
Names ==
    { << "a" >> \o ExtTxt,
      << "a", ".", "T", "X", "T" >>,
      << "a" >> \o ExtPdf,
      << "a", ".", "b", ".", "P", "d", "f" >>,
      << "a" >> \o ExtDocx,
      << "a" >> \o ExtCsv,
      << "a" >> \o ExtXlsx,
      << "a", ".", "X", "L", "S" >>,
      << "a" >> \o ExtPptx,
      << "a", ".", "x", "y", "z" >>,
      << "a", ".", "i", "n", "v", "a", "l", "i", "d" >>,
      << "a" >>,
      ExtTxt }

Glyphs == << "b", "c", "d", "e", "f", "g", "h", "i", "j", "k", "l", "m",
             "n", "o", "p", "q" >>
UnitGlyphs == << "A", "B", "C", "D", "E", "F", "G", "H", "I", "J", "K",
                 "L" >>

\* the text of chunk i of unit u: the second chunk is longer than the
\* placeholder's preview
ChunkText(u, i) ==
    IF i = 2
    THEN << UnitGlyphs[u] >> \o [k \in 1..(PreviewLen + 2) |-> Glyphs[i]]
    ELSE << UnitGlyphs[u], Glyphs[i] >>

ChunksOf(u, n) == [i \in 1..n |-> ChunkText(u, i)]

RECURSIVE SumSeq(_)
SumSeq(s) == IF Len(s) = 0 THEN 0 ELSE s[1] + SumSeq(Tail(s))

\* cell.value when it is a string, a number, a rich text of runs, or
\* something else (a formula, a date, a boolean)
StringValue(text) == [type |-> "string", text |-> text, richText |-> << >>]
NumberValue(digits) == [type |-> "number", text |-> digits, richText |-> << >>]
RichTextValue(runs) == [type |-> "richText", text |-> << >>, richText |-> runs]
OtherValue == [type |-> "other", text |-> << >>, richText |-> << >>]

\* step 1 of processAndCreateXlsx: the text of a cell, the runs of a rich
\* text joined, a string or number as it prints, '' for anything else
CellText(val) ==
    IF val.type = "richText"
    THEN Join([k \in 1..Len(val.richText) |-> val.richText[k].text], << >>)
    ELSE IF val.type \in {"string", "number"} THEN val.text
    ELSE << >>

\* the values the cells of a workbook hold: plain and rich texts that read
\* the same, blank ones, a number, a formula
CellValues ==
    { StringValue(<< "x" >>), StringValue(<< " " >>),
      StringValue(<< "y", "z" >>), NumberValue(<< "4", "2" >>),
      RichTextValue(<< [font |-> "bold", text |-> << "x" >>] >>),
      RichTextValue(<< [font |-> "bold", text |-> << "y" >>],
                       [font |-> "plain", text |-> << "z" >>] >>),
      RichTextValue(<< [font |-> "plain", text |-> << " " >>],
                       [font |-> "bold", text |-> << " " >>] >>),
      OtherValue }

\* cell texts a spreadsheet holds: blank, and two texts that may repeat
CellTexts == { << " " >>, << "x" >>, << "y", "z" >> }

RECURSIVE SelectNonBlank(_)
\* processAndCreateXlsx step 1: the cells whose text is non-blank after trim
SelectNonBlank(cells) ==
    IF Len(cells) = 0 THEN << >>
    ELSE IF NonBlank(cells[1])
         THEN << cells[1] >> \o SelectNonBlank(Tail(cells))
         ELSE SelectNonBlank(Tail(cells))

\* the texts taken one per cell, repeats included
UniqueTextsPerCell(texts) == texts

RECURSIVE UniqueTexts(_)
\* [...new Set(texts)]: the distinct texts in first-occurrence order
UniqueTexts(texts) ==
    IF Len(texts) = 0 THEN << >>
    ELSE LET init == UniqueTexts(SubSeq(texts, 1, Len(texts) - 1))
             last == texts[Len(texts)]
         IN  IF \E k \in 1..Len(init) : init[k] = last
             THEN init ELSE Append(init, last)

\* ---- the parts of a presentation archive

DigitChars == << "0", "1", "2", "3", "4", "5", "6", "7", "8", "9" >>
IsDigit(c) == \E k \in 1..10 : DigitChars[k] = c
DigitValue(c) == (CHOOSE k \in 1..10 : DigitChars[k] = c) - 1

RECURSIVE Digits(_)
\* the decimal numeral of n, as part names carry it
Digits(n) ==
    IF n < 10 THEN << DigitChars[n + 1] >>
    ELSE Append(Digits(n \div 10), DigitChars[(n % 10) + 1])

RECURSIVE ParseInt(_)
\* parseInt(digits, 10)
ParseInt(ds) ==
    IF Len(ds) = 0 THEN 0
    ELSE ParseInt(SubSeq(ds, 1, Len(ds) - 1)) * 10 + DigitValue(ds[Len(ds)])

\* a part name is a sequence of tokens: its digits one by one, the rest of
\* the name in pieces
SlidePath(n) == << "ppt/slides/slide" >> \o Digits(n) \o << ".xml" >>

\* /^ppt\/slides\/slide[0-9]+\.xml$/.test(f)
IsSlidePath(f) ==
    /\ Len(f) >= 3
    /\ f[1] = "ppt/slides/slide"
    /\ f[Len(f)] = ".xml"
    /\ \A k \in 2..(Len(f) - 1) : IsDigit(f[k])

\* a.match(/[0-9]+/): the first run of digits of the name, parsed; 0 when
\* the name has none
SlideNumber(f) ==
    LET ds == {k \in 1..Len(f) : IsDigit(f[k])}
    IN  IF ds = {} THEN 0
        ELSE LET a == CHOOSE k \in ds : \A j \in ds : k <= j
                 b == CHOOSE k \in a..Len(f) :
                          /\ \A j \in a..k : IsDigit(f[j])
                          /\ (k = Len(f) \/ ~IsDigit(f[k + 1]))
             IN  ParseInt(SubSeq(f, a, b))

RECURSIVE SelectSlidePaths(_)
\* Object.keys(pptxZip.files).filter(...): the slide parts of the archive, in
\* the order the archive enumerates them
SelectSlidePaths(archive) ==
    IF Len(archive) = 0 THEN << >>
    ELSE IF IsSlidePath(archive[1].path)
         THEN << archive[1] >> \o SelectSlidePaths(Tail(archive))
         ELSE SelectSlidePaths(Tail(archive))

RECURSIVE SortByNumber(_)
\* Array.prototype.sort((a, b) => numA - numB): ascending by number, parts of
\* equal number in their original order
SortByNumber(parts) ==
    IF Len(parts) <= 1 THEN parts
    ELSE LET init == SortByNumber(SubSeq(parts, 1, Len(parts) - 1))
             x == parts[Len(parts)]
             pos == Cardinality({k \in 1..Len(init) :
                        SlideNumber(init[k].path) <= SlideNumber(x.path)})
         IN  SubSeq(init, 1, pos) \o << x >> \o SubSeq(init, pos + 1, Len(init))

\* the slide list taken in the archive's own order
SlidesUnsorted(archive) == SelectSlidePaths(archive)

\* the slides of processPptx: the slide parts sorted by their number
Slides(archive) == SortByNumber(SelectSlidePaths(archive))

\* what the extractors and the splitter get out of the input bytes:
\* units[u] is the chunk array of one chunkAndTranslateText call (text
\* documents: one unit; presentations: one unit per slide, empty for a slide
\* without text) or the distinct cell texts of a spreadsheet; parts tells
\* whether every slide part of the archive is known to decompress ("sound")
\* or any of them may fail to ("any"); archive lists the parts of a
\* presentation in the order the archive enumerates them, each with its name
\* and the number of chunks its text splits into (0: no text)
DocText(n) == [kind |-> "text", cells |-> << >>, parts |-> "sound",
               archive |-> << >>, units |-> << ChunksOf(1, n) >>]
DocSheetOf(cells, values) ==
    [kind |-> "sheet", cells |-> cells, parts |-> "sound", archive |-> << >>,
     values |-> values, units |-> << UniqueTexts(SelectNonBlank(cells)) >>]
DocSheet(cells) ==
    DocSheetOf(cells, [k \in 1..Len(cells) |-> StringValue(cells[k])])

\* a workbook of cells of every kind of value: cells holds the text step 1
\* reads from each
DocWorkbook(values) ==
    DocSheetOf([k \in 1..Len(values) |-> CellText(values[k])], values)
DocArchive(archive, parts) ==
    [kind |-> "slides", cells |-> << >>, parts |-> parts, archive |-> archive,
     units |-> LET sl == Slides(archive)
               IN  [u \in 1..Len(sl) |->
                       ChunksOf(SlideNumber(sl[u].path), sl[u].chunks)]]
\* processCsv: the header and each record joined by '|||', the lines joined
\* by a blank line
CsvText(header, rows) ==
    Join(<< Join(header, Delim) >>
             \o [r \in 1..Len(rows) |-> Join(rows[r], Delim)], BlankLine)

\* splitter.splitText on a text below the chunk size: the text, trimmed, as
\* the one chunk; no chunk when nothing is left of it
SplitShort(text) == IF NonBlank(text) THEN << Trim(text) >> ELSE << >>

\* a CSV file as csv-parse reads it with columns: true: the column keys and
\* the records' values, by column
DocCsv(header, rows) ==
    [kind |-> "text", cells |-> << >>, parts |-> "sound", archive |-> << >>,
     table |-> [header |-> header, rows |-> rows],
     units |-> << SplitShort(CsvText(header, rows)) >>]

\* a presentation whose archive lists slide1, slide2, ... in this order
DocSlides(counts, parts) ==
    DocArchive([u \in 1..Len(counts) |->
                   [path |-> SlidePath(u), chunks |-> counts[u]]], parts)

SlideShapes(maxSlides, maxPer, maxCalls) ==
    { c \in UNION { [1..k -> 0..maxPer] : k \in 0..maxSlides } :
        SumSeq(c) <= maxCalls }

CellLists == UNION { [1..k -> CellTexts] : k \in 0..MaxCells }

FileExtensionOf(name) == ToLowerCase(ExtName(name))

DocsFor(name) ==
    LET e == FileExtensionOf(name)
    IN  IF e \in TextExts THEN { DocText(n) : n \in 0..MaxChunks }
        ELSE IF e \in SheetExts THEN { DocSheet(c) : c \in CellLists }
        ELSE IF e = ExtPptx
        THEN { DocSlides(c, "any") :
                   c \in SlideShapes(MaxSlides, MaxCalls, MaxCalls) }
        ELSE { DocText(1) }

\* the jobs the queue hands over: the controller enqueues none without a
\* socket id; the target language may be left out
Jobs(names) ==
    { [id |-> "j1", originalname |-> nm, targetLanguage |-> "",
       socketId |-> "sock-1"] : nm \in names }
    \cup { [id |-> "j2", originalname |-> nm, targetLanguage |-> "French",
            socketId |-> "sock-2"] : nm \in names }

\* how the translation service behaves during one job: the way a failing
\* call fails (axios.post rejects, or resolves without content), and which
\* calls fail: any of them, none, all, or those of alternate positions
Remotes(faults, fails) ==
    { [fault |-> f, fails |-> w, reply |-> "marked", configured |-> TRUE] :
        f \in faults, w \in fails }

\* a translation service that returns every input unchanged
EchoRemotes ==
    { [fault |-> "throw", fails |-> "none", reply |-> "echo",
       configured |-> TRUE] }

\* a worker without OPENROUTER_BASE_URL, OPENROUTER_API_KEY or
\* OPENROUTER_MODEL in its environment
UnconfiguredRemotes ==
    { [fault |-> "throw", fails |-> "none", reply |-> "marked",
       configured |-> FALSE] }

Timestamps == { "1700", "1701" }

\* the job ids status requests name: those of the jobs above, and one no
\* job has
JobIds == { "j1", "j2", "j9" }

\* the names the worker writes its output under
OutputNames ==
    { << "translated-", "1", "-", "7" >> \o ExtPdf,
      << "translated-", "2", "-", "7" >> \o ExtXls }

\* files put into translated-files by other hands
ForeignFiles == { << "R", ".", "P", "D", "F" >>, << "w", ".", "e", "x", "e" >> }

\* the file names downloads are asked for
DownloadNames ==
    OutputNames \cup ForeignFiles
    \cup { << >>,
           << ".", ".", "/", "translated-", "1", "-", "7" >> \o ExtPdf,
           << "a", "." >> \o ExtXls,
           << "n", "o", "t", "e", "s" >>,
           << "b" >> \o ExtTxt }

\* ------------------------------------------------------------------- state

VARIABLES
    job,               \* job.id and job.data of the Bull job
    doc,               \* the content of job.data.buffer
    remote,            \* how the translation service behaves in this run
    pc,                \* where handleTranslation stands
    unitSt,            \* per unit: idle, unread, queued, active, done, error
    slideQueue,        \* the queue of processPptx's limiter
    call,              \* per unit and chunk: queued, inflight, ok, throw, empty
    translatedChunks,  \* per unit, what translateChunk returned per chunk
    unitOut,           \* per unit, what chunkAndTranslateText returned
    posts,             \* per unit and chunk, the axios.post calls issued
    outputBuffer,      \* handleTranslation's outputBuffer
    files,             \* writes into translated-files, in order
    events,            \* what the gateway emitted, in order
    result,            \* what handleTranslation returned or raised
    failedStage,       \* history: the stage whose error reached the catch
    image,             \* translateImageDirect: what the OCR service finds
    imgPc,             \* where translateImageDirect stands
    segments,          \* translateImageDirect's segments
    apiCalls,          \* the axios.post calls of the image request, in order
    replies,           \* history: what those calls were answered
    imgResult,         \* what translateImageDirect returned or raised
    audio,             \* translateAudioDirect: what the speech service hears
    audPc,             \* where translateAudioDirect stands
    audCalls,          \* the texts given to translateTextDirect, in order
    audResult,         \* what translateAudioDirect returned or raised
    dir,               \* the names of the files in translated-files
    open,              \* per name, the download responses not yet closed
    served,            \* the download requests handled so far
    dlResponse,        \* what downloadFile answered last
    written,           \* history: the names the worker has written
    startedNames,      \* history: the names a download has streamed
    closedNames,       \* history: the names whose download has closed
    opening,           \* per name, the read streams whose file is not open yet
    uncaught,          \* history: the names whose stream emitted an error
    overlapped,        \* history: the names with two responses open at once
    queue,             \* translation-queue: per job id, the job Bull keeps
    asked,             \* the status requests handled so far
    statusResp,        \* what getJobStatus answered last
    observed,          \* history: per job id, the statuses answered, in order
    upload,            \* uploadPdf: the file and the body fields of the request
    config,            \* UPLOAD_LIMIT_ENABLED and UPLOAD_LIMIT_KB
    upPc,              \* where uploadPdf stands
    upResponse,        \* what uploadPdf returned or raised
    startCalls,        \* history: the calls of startTranslationJob it made
    wrapIn,            \* wrapText: the text and maxWidth it is called with
    wrapPc,            \* where wrapText stands
    wrapWords,         \* the words the loop has still to take
    wrapLines,         \* wrapText's lines
    wrapLine,          \* wrapText's currentLine
    running,           \* per worker slot: its job and where its handler stands
    tempFiles,         \* the temp-<id>.pptx files in the working directory
    outFiles,          \* the files in translated-files the slots wrote
    sent               \* what the gateway emitted for the slots, in order

jobVars == << job, doc, remote, pc, unitSt, slideQueue, call,
              translatedChunks, unitOut, posts, outputBuffer, files, events,
              result, failedStage >>

imgVars == << image, imgPc, segments, apiCalls, replies, imgResult >>

audVars == << audio, audPc, audCalls, audResult >>

dlVars == << dir, open, served, dlResponse, written, startedNames,
            closedNames, opening, uncaught, overlapped >>

qVars == << queue, asked, statusResp, observed >>

upVars == << upload, config, upPc, upResponse, startCalls >>

wrapVars == << wrapIn, wrapPc, wrapWords, wrapLines, wrapLine >>

poolVars == << running, tempFiles, outFiles, sent >>

\* the state of the requests other than the image request
reqVars == << audVars, dlVars, qVars, upVars, wrapVars, poolVars >>

\* what an audio request, a download and a status request leave alone
exceptAud == << jobVars, imgVars, dlVars, qVars, upVars, wrapVars, poolVars >>
exceptDl == << jobVars, imgVars, audVars, qVars, upVars, wrapVars, poolVars >>
exceptQ == << jobVars, imgVars, audVars, dlVars, upVars, wrapVars, poolVars >>
exceptWrap == << jobVars, imgVars, audVars, dlVars, qVars, upVars, poolVars >>
exceptPool == << jobVars, imgVars, audVars, dlVars, qVars, upVars, wrapVars >>

vars == << jobVars, imgVars, reqVars >>

fanVars == << unitSt, slideQueue, call, translatedChunks, unitOut, posts >>

NoBuffer == [format |-> "none", body |-> << >>]
NoError == [message |-> << >>]
Pending == [kind |-> "pending", translatedFileName |-> << >>, error |-> NoError]

NUnits == Len(doc.units)
Units == 1..NUnits
FileExtension == FileExtensionOf(job.originalname)
TargetLanguage == IF job.targetLanguage = "" THEN "Vietnamese"
                  ELSE job.targetLanguage

JobInit(jobs, docs(_), remotes) ==
    /\ job \in jobs
    /\ doc \in docs(job.originalname)
    /\ remote \in remotes
    /\ pc = "start"
    /\ unitSt = [u \in Units |-> "idle"]
    /\ slideQueue = << >>
    /\ call = [u \in Units |-> [i \in 1..Len(doc.units[u]) |-> "queued"]]
    /\ translatedChunks = [u \in Units |-> [i \in 1..Len(doc.units[u]) |-> << >>]]
    /\ unitOut = [u \in Units |-> << >>]
    /\ posts = [u \in Units |-> [i \in 1..Len(doc.units[u]) |-> 0]]
    /\ outputBuffer = NoBuffer
    /\ files = << >>
    /\ events = << >>
    /\ result = Pending
    /\ failedStage = ""

\* no image request
NoReply == [kind |-> "none", content |-> << >>]
NoImage == [ocr |-> "none", detections |-> 0, paragraphs |-> << >>,
            boxes |-> << >>, page |-> [width |-> 0, height |-> 0]]
ImgPending == [kind |-> "pending", value |-> [segments |-> << >>],
               error |-> NoError]

\* an image request about to start, or none
ImageInit(images, at) ==
    /\ image \in images
    /\ imgPc = at
    /\ segments = << >>
    /\ apiCalls = << >>
    /\ replies = [batch |-> NoReply, vision |-> NoReply]
    /\ imgResult = ImgPending

\* no audio request
NoAudio == [recognize |-> "none", results |-> << >>]
NoAudioValue == [success |-> FALSE, message |-> << >>, originalText |-> << >>,
                 translatedText |-> << >>]
AudPending == [kind |-> "pending", value |-> NoAudioValue, error |-> NoError]

\* an audio request about to start, or none
AudioInit(audios, at) ==
    /\ audio \in audios
    /\ audPc = at
    /\ audCalls = << >>
    /\ audResult = AudPending

\* no download yet, and a directory holding the given files
NoDownload == [name |-> << >>, status |-> 0, message |-> << >>,
               contentType |-> << >>, stat |-> FALSE]

DownloadInit(dirs) ==
    /\ dir \in dirs
    /\ open = [n \in DownloadNames |-> 0]
    /\ served = 0
    /\ dlResponse = NoDownload
    /\ written = {}
    /\ startedNames = {}
    /\ closedNames = {}
    /\ opening = [n \in DownloadNames |-> 0]
    /\ uncaught = {}
    /\ overlapped = {}

\* getJob finds nothing under the id
NoJob == [exists |-> FALSE, isActive |-> FALSE, isCompleted |-> FALSE,
          isFailed |-> FALSE, returnvalue |-> << >>, failedReason |-> << >>]
NoStatus == [jobId |-> "", status |-> "", result |-> << >>, reason |-> << >>]

\* a queue holding the given jobs, and no status request yet
QueueInit(queues) ==
    /\ queue \in queues
    /\ asked = 0
    /\ statusResp = NoStatus
    /\ observed = [id \in JobIds |-> << >>]

EmptyQueue == [id \in JobIds |-> NoJob]

\* no upload
NoUpload == [present |-> FALSE, mimetype |-> "", size |-> 0,
             originalname |-> << >>, targetLanguage |-> "",
             isUserPremium |-> FALSE, socketId |-> ""]
NoConfig == [enabled |-> "", limitKb |-> 0]
UpPending == [kind |-> "pending", message |-> << >>, jobId |-> "",
              targetLanguage |-> ""]

\* an upload about to be handled, or none
UploadInit(uploads, configs, at) ==
    /\ upload \in uploads
    /\ config \in configs
    /\ upPc = at
    /\ upResponse = UpPending
    /\ startCalls = << >>

NoWrap == [text |-> << >>, maxWidth |-> 0]

\* the slots of the worker pool with the jobs Bull gave them
PoolInit(pools) ==
    /\ running \in pools
    /\ tempFiles = {}
    /\ outFiles = {}
    /\ sent = << >>

WrapInit(calls, at) ==
    /\ wrapIn \in calls
    /\ wrapPc = at
    /\ wrapWords = << >>
    /\ wrapLines = << >>
    /\ wrapLine = << >>

\* no wrapText call, and no worker slot other than the one of jobVars
OtherIdle ==
    /\ WrapInit({NoWrap}, "idle")
    /\ PoolInit({ << >> })

\* no request other than the image request
ReqIdle ==
    /\ OtherIdle
    /\ AudioInit({NoAudio}, "idle")
    /\ DownloadInit({{}})
    /\ QueueInit({EmptyQueue})
    /\ UploadInit({NoUpload}, {NoConfig}, "idle")

InitWith(jobs, docs(_), remotes) ==
    /\ ImageInit({NoImage}, "idle")
    /\ ReqIdle
    /\ JobInit(jobs, docs, remotes)

Init == InitWith(Jobs(Names), DocsFor, Remotes({"throw", "empty"}, {"any"}))

\* ------------------------------------------------------------- the gateway

\* EventsGateway.sendJobUpdateToClient: emits when the socket id is set (the
\* server is, once the gateway is up)
sendJobUpdateToClient(log, socketId, event, data) ==
    IF socketId # "" THEN Append(log, [to |-> socketId, event |-> event,
                                        data |-> data])
    ELSE log

\* -------------------------------------------------------------- the errors

UnsupportedError(ext) == [message |-> << "Unsupported file type: " >> \o ext]
NoOutputError(ext) ==
    [message |-> << "No output buffer was generated for " >> \o ext \o << "." >>]
ExtractError == [message |-> << "(extraction failed)" >>]
SlideReadError == [message |-> << "(slide part unreadable)" >>]
CreateError == [message |-> << "(reconstruction failed)" >>]
WriteError == [message |-> << "(write failed)" >>]

\* a catch block that notifies and then returns normally
CatchSwallow(stage, error) ==
    /\ failedStage' = stage
    /\ events' = sendJobUpdateToClient(events, job.socketId, "translationFailed",
                     [jobId |-> job.id, status |-> "failed",
                      reason |-> error.message])
    /\ result' = [kind |-> "returned", translatedFileName |-> << >>,
                  error |-> NoError]
    /\ pc' = "failed"

\* the catch block of handleTranslation: notify, then rethrow
Catch(stage, error) ==
    /\ failedStage' = stage
    /\ events' = sendJobUpdateToClient(events, job.socketId, "translationFailed",
                     [jobId |-> job.id, status |-> "failed",
                      reason |-> error.message])
    /\ result' = [kind |-> "raised", translatedFileName |-> << >>,
                  error |-> error]
    /\ pc' = "failed"

\* ------------------------------------------------------------- the limiter

CountOf(seq, what) == Cardinality({k \in DOMAIN seq : seq[k] = what})

\* a limiter that compares with <= and so runs one task too many
SlotsOffByOne(activeCount, concurrency) ==
    IF activeCount <= concurrency THEN concurrency - activeCount + 1 ELSE 0

\* p-limit: how many more tasks may start with activeCount running
Slots(activeCount, concurrency) ==
    IF activeCount < concurrency THEN concurrency - activeCount ELSE 0

\* a fan-out without limiter: every queued call starts at once
StartCallsAll(c) ==
    [i \in DOMAIN c |-> IF c[i] = "queued" THEN "inflight" ELSE c[i]]

\* p-limit over the chunks of one unit: the queued calls start in index
\* order while a slot is free
StartCalls(c) ==
    LET free == Slots(CountOf(c, "inflight"), ChunkLimit)
    IN  [i \in DOMAIN c |->
            IF c[i] = "queued"
               /\ Cardinality({j \in 1..(i - 1) : c[j] = "queued"}) < free
            THEN "inflight" ELSE c[i]]

\* a slide fan-out without limiter: every queued slide starts at once
StartSlidesAll(st, q) ==
    << [u \in DOMAIN st |-> IF st[u] = "queued" THEN "active" ELSE st[u]],
       << >> >>

RECURSIVE StartSlides(_, _)
\* p-limit over the slides: the head of the queue starts while a slot is
\* free; the result is the pair of unit states and remaining queue
StartSlides(st, q) ==
    IF Len(q) > 0 /\ Slots(CountOf(st, "active"), SlideLimit) > 0
    THEN StartSlides([st EXCEPT ![Head(q)] = "active"], Tail(q))
    ELSE << st, q >>

\* ---------------------------------------------------------- translateChunk

\* what the translation service answers when it answers: the text marked
\* with the language, or, from a service that echoes, the text itself
RemoteContent(text, targetLanguage) ==
    IF remote.reply = "echo" THEN text
    ELSE << "[", targetLanguage, "]" >> \o text

\* a placeholder that carries the whole chunk
PlaceholderWhole(text) ==
    << "[Error translating this chunk: " >> \o text \o << "...]" >>

\* the catch block's return value: the marker around text.substring(0, 50)
Placeholder(text) ==
    << "[Error translating this chunk: " >> \o Substring0(text, PreviewLen)
        \o << "...]" >>

RemoteError == [message |-> << "(request failed)" >>]
InvalidResponseError ==
    [message |-> << "Invalid API response structure from proxy." >>]
ConfigError ==
    [message |-> << "API URL, Key, or Model is not configured in .env file." >>]

\* translateChunk without its try/catch: a failed call rejects the promise
translateChunkNoCatch(text, targetLanguage, response) ==
    IF response = "ok" /\ RemoteContent(text, targetLanguage) # << >>
    THEN [status |-> "fulfilled",
          value |-> RemoteContent(text, targetLanguage), reason |-> NoError]
    ELSE [status |-> "rejected", value |-> << >>,
          reason |-> IF response = "throw" THEN RemoteError
                     ELSE IF response = "unconfigured" THEN ConfigError
                     ELSE InvalidResponseError]

\* translateChunk, given how axios.post settled, or that it was not called
\* for want of configuration: the promise it returns is fulfilled with the
\* content, or, from its catch block, with the placeholder
translateChunk(text, targetLanguage, response) ==
    IF response = "ok" /\ RemoteContent(text, targetLanguage) # << >>
    THEN [status |-> "fulfilled",
          value |-> RemoteContent(text, targetLanguage), reason |-> NoError]
    ELSE [status |-> "fulfilled", value |-> Placeholder(text),
          reason |-> NoError]

\* how axios.post may settle for chunk i of unit u
Responses(u, i) ==
    IF ~remote.configured THEN {"unconfigured"}
    ELSE IF remote.fails = "any" THEN {"ok", remote.fault}
    ELSE IF remote.fails = "all" THEN {remote.fault}
    ELSE IF remote.fails = "alternate" /\ (u + i) % 2 = 0 THEN {remote.fault}
    ELSE {"ok"}

\* a translateChunk that posts the chunk again when the call failed
AfterPostRetry(response) == IF response = "ok" THEN "ok" ELSE "inflight"

\* translateChunk after its one axios.post: whatever the answer, it returns
\* and the call is over
AfterPost(response) == response

\* the axios.post calls issued so far, after a step from old to new in which
\* the call at position at was answered: one more for every call that is now
\* on its way and was not before, or was answered and is on its way again
Posted(old, new, at) ==
    [v \in DOMAIN new |-> [j \in DOMAIN new[v] |->
        posts[v][j] + IF new[v][j] = "inflight" /\ remote.configured
                         /\ (old[v][j] # "inflight" \/ << v, j >> = at)
                      THEN 1 ELSE 0]]

\* a result array filled in the order the promises settle
CollectArrival(results, i, value) ==
    LET free == {k \in DOMAIN results : results[k] = << >>}
    IN  [results EXCEPT ![CHOOSE k \in free : \A j \in free : k <= j] = value]

\* Promise.all's result array: the value of the i-th promise at index i
Collect(results, i, value) == [results EXCEPT ![i] = value]

\* a unit taken to be finished only when every call succeeded
AllSucceeded(c) == \A i \in DOMAIN c : c[i] = "ok"
\* Promise.all of chunkAndTranslateText: every call has settled
AllSettled(c) ==
    \A i \in DOMAIN c : c[i] \in {"ok", "throw", "empty", "unconfigured"}

\* chunkAndTranslateText's return value once every call has settled
Reassemble(results) == Join(results, BlankLine)

\* ------------------------------------------------------ handleTranslation

\* an if/else chain whose last branch takes every other extension as text
RouteDefaultTxt(ext) ==
    IF ext = ExtPptx THEN "pptx"
    ELSE IF ext = ExtXlsx \/ ext = ExtXls THEN "xlsx"
    ELSE IF ext = ExtPdf THEN "pdf"
    ELSE IF ext = ExtDocx THEN "docx"
    ELSE IF ext = ExtCsv THEN "csv"
    ELSE "txt"

\* the if/else chain of handleTranslation on fileExtension
Route(ext) ==
    IF ext = ExtPptx THEN "pptx"
    ELSE IF ext = ExtXlsx \/ ext = ExtXls THEN "xlsx"
    ELSE IF ext = ExtPdf THEN "pdf"
    ELSE IF ext = ExtDocx THEN "docx"
    ELSE IF ext = ExtCsv THEN "csv"
    ELSE IF ext = ExtTxt THEN "txt"
    ELSE "unsupported"

\* how the format's loader may end; decoding a text file cannot fail
ExtractOutcomes(route) == IF route = "txt" THEN {"ok"} ELSE {"ok", "throw"}

\* how the format's writer may end: bytes, an error, or (Packer.toBuffer,
\* whose value createDocx passes on unwrapped) nothing
CreateOutcomes(route) ==
    IF route = "txt" THEN {"ok"}
    ELSE IF route = "docx" THEN {"ok", "throw", "none"}
    ELSE {"ok", "throw"}

\* the entry of handleTranslation up to its first await: an extension no
\* branch handles throws at once
handleTranslation ==
    /\ pc = "start"
    /\ IF Route(FileExtension) = "unsupported"
       THEN Catch("dispatch", UnsupportedError(FileExtension))
       ELSE /\ pc' = "extract"
            /\ UNCHANGED << events, result, failedStage >>
    /\ UNCHANGED << imgVars, reqVars, job, doc, remote, fanVars, outputBuffer, files >>

\* a processCsv that takes no keys when there is no record
KeysRaiseNever(records) == FALSE
\* Object.keys(records[0]) of processCsv throws when there is no record
KeysRaise(records) == Len(records) = 0
\* the records csv-parse reads; a CSV document given by its chunks alone
\* has a record when it has a chunk
Records(d) == IF "table" \in DOMAIN d THEN d.table.rows ELSE d.units[1]
KeysTypeError ==
    [message |-> << "Cannot convert undefined or null to object" >>]

\* the workbook written out again instead of the input bytes
FileBufferRewritten == [format |-> "xlsx", body |-> doc.cells]

\* the input bytes, as processAndCreateXlsx returns them untouched
FileBuffer == [format |-> "input", body |-> doc.cells]

\* processPdf, processDocx, processCsv, processTxt up to the fan-out of
\* chunkAndTranslateText; processAndCreateXlsx up to its fan-out or its early
\* return; processPptx up to the per-slide reads
extract ==
    /\ pc = "extract"
    /\ \E o \in ExtractOutcomes(Route(FileExtension)) :
         IF o = "throw"
         THEN /\ Catch("extract", ExtractError)
              /\ UNCHANGED << fanVars, outputBuffer >>
         ELSE IF Route(FileExtension) = "csv" /\ KeysRaise(Records(doc))
         THEN /\ Catch("extract", KeysTypeError)
              /\ UNCHANGED << fanVars, outputBuffer >>
         ELSE IF doc.kind = "slides"
         THEN /\ unitSt' = [u \in Units |-> "unread"]
              /\ pc' = "translating"
              /\ UNCHANGED << slideQueue, call, translatedChunks, unitOut,
                              posts, outputBuffer, events, result,
                              failedStage >>
         ELSE IF doc.kind = "sheet" /\ Len(doc.units[1]) = 0
         THEN /\ outputBuffer' = FileBuffer
              /\ unitSt' = [unitSt EXCEPT ![1] = "done"]
              /\ pc' = "write"
              /\ UNCHANGED << slideQueue, call, translatedChunks, unitOut,
                              posts, events, result, failedStage >>
         ELSE /\ call' = [call EXCEPT ![1] = StartCalls(call[1])]
              /\ posts' = Posted(call, call', << 0, 0 >>)
              /\ unitSt' = [unitSt EXCEPT ![1] =
                               IF Len(doc.units[1]) = 0 THEN "done" ELSE "active"]
              /\ unitOut' = IF Len(doc.units[1]) = 0 /\ doc.kind # "sheet"
                            THEN [unitOut EXCEPT ![1] = Reassemble(<< >>)]
                            ELSE unitOut
              /\ pc' = "translating"
              /\ UNCHANGED << slideQueue, translatedChunks, outputBuffer,
                              events, result, failedStage >>
    /\ UNCHANGED << imgVars, reqVars, job, doc, remote, files >>

\* the calls of the slides that StartSlides has just started
CallsAfterStart(oldSt, newSt, c) ==
    [v \in DOMAIN c |->
        IF newSt[v] = "active" /\ oldSt[v] # "active"
        THEN StartCalls(c[v]) ELSE c[v]]

\* how file.async("text") may end for a slide part
ReadOutcomes == IF doc.parts = "sound" THEN {"ok"} ELSE {"ok", "throw"}

\* processPptx, one slide of slides.map: read the part, collect its <a:t>
\* runs, and hand a non-blank text to the slide limiter
readSlide(u) ==
    /\ unitSt[u] = "unread"
    /\ \E o \in ReadOutcomes :
         IF o = "throw"
         THEN /\ unitSt' = [unitSt EXCEPT ![u] = "error"]
              /\ IF pc = "translating" THEN Catch("slide", SlideReadError)
                 ELSE UNCHANGED << events, result, failedStage, pc >>
              /\ UNCHANGED << slideQueue, call, posts >>
         ELSE IF Len(doc.units[u]) = 0
         THEN /\ unitSt' = [unitSt EXCEPT ![u] = "done"]
              /\ UNCHANGED << slideQueue, call, posts, events, result,
                              failedStage, pc >>
         ELSE LET sl == StartSlides([unitSt EXCEPT ![u] = "queued"],
                                    Append(slideQueue, u))
              IN  /\ unitSt' = sl[1]
                  /\ slideQueue' = sl[2]
                  /\ call' = CallsAfterStart(unitSt, sl[1], call)
                  /\ posts' = Posted(call, call', << 0, 0 >>)
                  /\ UNCHANGED << events, result, failedStage, pc >>
    /\ UNCHANGED << imgVars, reqVars, job, doc, remote, translatedChunks, unitOut,
                    outputBuffer, files >>

\* one remote call settles: translateChunk returns, its limiter starts the
\* next queued chunk, and when it was the unit's last call
\* chunkAndTranslateText returns and the slide limiter starts the next slide
settle(u, i) ==
    /\ call[u][i] = "inflight"
    /\ \E r \in Responses(u, i) :
         LET p == translateChunk(doc.units[u][i], TargetLanguage, r)
             c1 == StartCalls([call[u] EXCEPT ![i] = AfterPost(r)])
             res == Collect(translatedChunks[u], i, p.value)
             finished == AllSettled(c1) /\ unitSt[u] = "active"
             st1 == IF p.status = "rejected"
                    THEN [unitSt EXCEPT ![u] = "error"]
                    ELSE IF finished THEN [unitSt EXCEPT ![u] = "done"]
                    ELSE unitSt
             sl == StartSlides(st1, slideQueue)
         IN  /\ translatedChunks' = [translatedChunks EXCEPT ![u] = res]
             /\ unitOut' = IF finished /\ p.status = "fulfilled"
                              /\ doc.kind # "sheet"
                           THEN [unitOut EXCEPT ![u] = Reassemble(res)]
                           ELSE unitOut
             /\ unitSt' = sl[1]
             /\ slideQueue' = sl[2]
             /\ call' = CallsAfterStart(unitSt, sl[1], [call EXCEPT ![u] = c1])
             /\ posts' = Posted(call, call', << u, i >>)
             /\ IF p.status = "rejected" /\ pc = "translating"
                THEN Catch("translate", p.reason)
                ELSE UNCHANGED << events, result, failedStage, pc >>
    /\ UNCHANGED << imgVars, reqVars, job, doc, remote, outputBuffer, files >>

\* --------------------------------------------------------- reconstruction

\* the translatedSlides of processPptx: Promise.all's array, sorted by
\* slideIndex
TranslatedSlides ==
    [u \in Units |-> [slideIndex |-> u - 1, translatedText |-> unitOut[u]]]

\* a createPptx that leaves a single note when no entry has a text
createPptxNoteWhenBlank(slideData) ==
    [format |-> "pptx",
     body |-> IF \A k \in 1..Len(slideData) :
                     slideData[k].translatedText = << >>
              THEN << [text |-> << "No content translated." >>, label |-> 0] >>
              ELSE [k \in 1..Len(slideData) |->
                       [text |-> IF slideData[k].translatedText = << >>
                                 THEN << "(Empty Slide)" >>
                                 ELSE slideData[k].translatedText,
                        label |-> slideData[k].slideIndex + 1]]]

\* createPptx: one slide per entry with its text (or the empty-slide note)
\* and its label, a single note when there is no entry
createPptx(slideData) ==
    [format |-> "pptx",
     body |-> IF Len(slideData) = 0
              THEN << [text |-> << "No content translated." >>, label |-> 0] >>
              ELSE [k \in 1..Len(slideData) |->
                       [text |-> IF slideData[k].translatedText = << >>
                                 THEN << "(Empty Slide)" >>
                                 ELSE slideData[k].translatedText,
                        label |-> slideData[k].slideIndex + 1]]]

\* the Map of processAndCreateXlsx from an original text to its translation
TranslationOf(text) ==
    LET k == CHOOSE k \in 1..Len(doc.units[1]) : doc.units[1][k] = text
    IN  translatedChunks[1][k]

\* a rich text that keeps its runs, each with the translated text
WriteCellEveryRun(val, translated) ==
    IF val.type = "richText"
    THEN RichTextValue([k \in 1..Len(val.richText) |->
                           [font |-> val.richText[k].font, text |-> translated]])
    ELSE StringValue(translated)

\* the new value of a collected cell: a rich text becomes one run with the
\* first run's font and the translation, anything else the translation
WriteCell(val, translated) ==
    IF val.type = "richText"
    THEN RichTextValue(<< [font |-> val.richText[1].font,
                           text |-> translated] >>)
    ELSE StringValue(translated)

\* processAndCreateXlsx steps 3 and 4: every collected cell gets the
\* translation of its text, unless that translation is empty
WriteCells ==
    [format |-> "xlsx",
     body |-> [k \in 1..Len(doc.values) |->
                  IF NonBlank(CellText(doc.values[k]))
                     /\ TranslationOf(CellText(doc.values[k])) # << >>
                  THEN WriteCell(doc.values[k],
                                 TranslationOf(CellText(doc.values[k])))
                  ELSE doc.values[k]]]

createPdf(text, targetLanguage) == [format |-> "pdf", body |-> text]
createDocx(text) == [format |-> "docx", body |-> text]

\* the value createCsv's record holds under the k-th header: the value at
\* the last position whose header is the same, '' when the line has none
RecordValue(headers, values, k) ==
    LET same == {j \in 1..Len(headers) : headers[j] = headers[k]}
        last == CHOOSE j \in same : \A m \in same : m <= j
    IN  IF last <= Len(values) THEN values[last] ELSE << >>

\* createCsv: the translated text split at blank lines, the first line the
\* header, every line split at '|||' and trimmed, the values mapped onto the
\* headers by position and written out under the header row; nothing when
\* the header line is empty
createCsv(translatedText) ==
    LET lines == Split(translatedText, BlankLine)
        headerLine == lines[1]
        heads == Split(headerLine, Delim)
        headers == [k \in 1..Len(heads) |-> Trim(heads[k])]
        ValuesOf(line) ==
            LET vs == Split(line, Delim) IN [k \in 1..Len(vs) |-> Trim(vs[k])]
    IN  [format |-> "csv",
         body |-> IF headerLine = << >> THEN [headers |-> << >>, rows |-> << >>]
                  ELSE [headers |-> headers,
                        rows |-> [r \in 1..(Len(lines) - 1) |->
                                    [k \in 1..Len(headers) |->
                                        RecordValue(headers,
                                            ValuesOf(lines[r + 1]), k)]]]]
createTxt(text) == [format |-> "txt", body |-> text]

\* the bytes the route's writer produces from the translation
Reconstructed(route) ==
    IF route = "pptx" THEN createPptx(TranslatedSlides)
    ELSE IF route = "xlsx" THEN WriteCells
    ELSE IF route = "pdf" THEN createPdf(unitOut[1], TargetLanguage)
    ELSE IF route = "docx" THEN createDocx(unitOut[1])
    ELSE IF route = "csv" THEN createCsv(unitOut[1])
    ELSE createTxt(unitOut[1])

\* the writer's result taken as it comes, without the check of outputBuffer
createOutputUnchecked ==
    /\ pc = "translating"
    /\ \A u \in Units : unitSt[u] = "done"
    /\ \E o \in CreateOutcomes(Route(FileExtension)) :
         IF o = "throw" THEN Catch("create", CreateError) /\ UNCHANGED outputBuffer
         ELSE /\ outputBuffer' = IF o = "none" THEN NoBuffer
                                 ELSE Reconstructed(Route(FileExtension))
              /\ pc' = "write"
              /\ UNCHANGED << events, result, failedStage >>
    /\ UNCHANGED << imgVars, reqVars, job, doc, remote, fanVars, files >>

\* handleTranslation from the end of the translation to the check of
\* outputBuffer: Promise.all has resolved, the writer runs
createOutput ==
    /\ pc = "translating"
    /\ \A u \in Units : unitSt[u] = "done"
    /\ \E o \in CreateOutcomes(Route(FileExtension)) :
         IF o = "throw" THEN Catch("create", CreateError) /\ UNCHANGED outputBuffer
         ELSE IF o = "none"
         THEN Catch("nooutput", NoOutputError(FileExtension))
              /\ UNCHANGED outputBuffer
         ELSE /\ outputBuffer' = Reconstructed(Route(FileExtension))
              /\ pc' = "write"
              /\ UNCHANGED << events, result, failedStage >>
    /\ UNCHANGED << imgVars, reqVars, job, doc, remote, fanVars, files >>

\* a name that leaves the job id out
OutputFileNameNoId(id, now, ext) == << "translated-", now >> \o ext

\* `translated-${job.id}-${Date.now()}${fileExtension}`
OutputFileName(id, now, ext) == << "translated-", id, "-", now >> \o ext

\* the completion notified before the write is awaited
writeFileNotifyFirst ==
    /\ pc = "write"
    /\ \E now \in Timestamps, o \in {"ok", "fail", "partial"} :
         LET name == OutputFileName(job.id, now, FileExtension)
             told == sendJobUpdateToClient(events, job.socketId,
                         "translationComplete",
                         [jobId |-> job.id, status |-> "completed",
                          fileName |-> name])
         IN  IF o = "ok"
             THEN /\ files' = Append(files, [name |-> name, data |-> outputBuffer,
                                             whole |-> TRUE])
                  /\ events' = told
                  /\ result' = [kind |-> "returned", translatedFileName |-> name,
                                error |-> NoError]
                  /\ pc' = "completed"
                  /\ UNCHANGED failedStage
             ELSE /\ files' = files
                  /\ events' = sendJobUpdateToClient(told, job.socketId,
                                   "translationFailed",
                                   [jobId |-> job.id, status |-> "failed",
                                    reason |-> WriteError.message])
                  /\ result' = [kind |-> "raised", translatedFileName |-> << >>,
                                error |-> WriteError]
                  /\ failedStage' = "write"
                  /\ pc' = "failed"
    /\ UNCHANGED << imgVars, reqVars, job, doc, remote, fanVars, outputBuffer >>

\* fs.mkdir and fs.writeFile: the file is written whole, or the call fails
\* leaving nothing or a truncated file
writeFile ==
    /\ pc = "write"
    /\ \E now \in Timestamps, o \in {"ok", "fail", "partial"} :
         LET name == OutputFileName(job.id, now, FileExtension)
         IN  IF o = "ok"
             THEN /\ files' = Append(files, [name |-> name, data |-> outputBuffer,
                                             whole |-> TRUE])
                  /\ pc' = "notify"
                  /\ UNCHANGED << events, result, failedStage >>
             ELSE /\ files' = IF o = "partial"
                              THEN Append(files, [name |-> name,
                                                  data |-> outputBuffer,
                                                  whole |-> FALSE])
                              ELSE files
                  /\ Catch("write", WriteError)
    /\ UNCHANGED << imgVars, reqVars, job, doc, remote, fanVars, outputBuffer >>

\* the end of handleTranslation: notify the client and return the name
complete ==
    /\ pc = "notify"
    /\ LET name == files[Len(files)].name
       IN  /\ events' = sendJobUpdateToClient(events, job.socketId,
                            "translationComplete",
                            [jobId |-> job.id, status |-> "completed",
                             fileName |-> name])
           /\ result' = [kind |-> "returned", translatedFileName |-> name,
                         error |-> NoError]
    /\ pc' = "completed"
    /\ UNCHANGED << imgVars, reqVars, job, doc, remote, fanVars, outputBuffer, files,
                    failedStage >>

Next ==
    \/ handleTranslation
    \/ extract
    \/ \E u \in Units : readSlide(u)
    \/ \E u \in Units : \E i \in 1..Len(doc.units[u]) : settle(u, i)
    \/ createOutput
    \/ writeFile
    \/ complete

Spec == Init /\ [][Next]_vars

\* the job when every remote call settles and every continuation that is
\* ready runs
SpecSettling == Init /\ [][Next]_vars /\ WF_vars(Next)

\* ------------------------------------------------- documents under load

\* chunks (distinct cell texts) of a document that fills the chunk limiter
LoadChunks == ChunkLimit + MaxOver
\* slides of a presentation whose second slide has no text and whose others
\* fill the slide limiter
LoadSlides == SlideLimit + MaxSlidesOver + 1

DistinctCells(n) == [k \in 1..n |-> << "c", Glyphs[k] >>]

LoadSlideShapes ==
    { [u \in 1..LoadSlides |-> IF u = 2 THEN 0 ELSE 1],
      [u \in 1..((SlideLimit \div MaxSlideChunks) + 1) |-> MaxSlideChunks],
      << LoadChunks >> }

LoadDocsFor(name) ==
    LET e == FileExtensionOf(name)
    IN  IF e = ExtTxt THEN { DocText(n) : n \in ChunkLimit..LoadChunks }
        ELSE IF e = ExtXlsx THEN { DocSheet(DistinctCells(LoadChunks)) }
        ELSE { DocSlides(c, "sound") : c \in LoadSlideShapes }

LoadJobs(names) == { j \in Jobs(names) : j.id = "j1" }

\* text, spreadsheet and presentation jobs of a worker that is configured
\* and of one that is not
InitChunk ==
    InitWith(LoadJobs({ << "a" >> \o ExtTxt, << "a" >> \o ExtXlsx,
                        << "a" >> \o ExtPptx }),
             DocsFor, Remotes({"throw", "empty"}, {"any"})
                          \cup UnconfiguredRemotes)

SpecChunk == InitChunk /\ [][Next]_vars

\* workbooks of up to MaxCells cells of every kind of value
Workbooks ==
    { DocWorkbook(v) : v \in UNION { [1..n -> CellValues] : n \in 0..MaxCells } }

WorkbookDocsFor(name) == Workbooks

InitWorkbook ==
    InitWith(LoadJobs({ << "a" >> \o ExtXlsx }), WorkbookDocsFor,
             Remotes({"throw", "empty"}, {"any"}))

NextWorkbook ==
    \/ handleTranslation
    \/ extract
    \/ \E u \in Units : \E i \in 1..Len(doc.units[u]) : settle(u, i)
    \/ createOutput

\* spreadsheet jobs over those workbooks
SpecWorkbook == InitWorkbook /\ [][NextWorkbook]_vars

InitLoad ==
    InitWith(LoadJobs({ << "a" >> \o ExtTxt, << "a" >> \o ExtXlsx,
                        << "a" >> \o ExtPptx }),
             LoadDocsFor, Remotes({"throw"}, {"none", "alternate"}))

InitSlides ==
    InitWith(LoadJobs({ << "a" >> \o ExtPptx }), LoadDocsFor,
             Remotes({"throw"}, {"none", "alternate"}))

\* the job up to the end of its translation
NextLoad ==
    \/ handleTranslation
    \/ extract
    \/ \E u \in Units : readSlide(u)
    \/ \E u \in Units : \E i \in 1..Len(doc.units[u]) : settle(u, i)

SettleSome == \E u \in Units : \E i \in 1..Len(doc.units[u]) : settle(u, i)

\* text, spreadsheet and presentation jobs that fill their limiters
SpecLoad == InitLoad /\ [][NextLoad]_vars

\* presentation jobs that fill their limiters; every remote call settles
SpecSlides == InitSlides /\ [][NextLoad]_vars /\ WF_vars(SettleSome)

\* ------------------------------------------------- presentation archives

\* the names an archive may list: slides 1, 2, 3 and 10, and parts that are
\* no slides
PartPool ==
    { SlidePath(1), SlidePath(2), SlidePath(3), SlidePath(10),
      << "ppt/presentation.xml" >>,
      << "ppt/slides/_rels/slide", "1", ".xml.rels" >> }

\* which slides have text: all, none, or those of odd number
TextPatterns == {"all", "none", "odd"}

ChunksIn(pattern, path) ==
    IF ~IsSlidePath(path) THEN 0
    ELSE IF pattern = "all" THEN 1
    ELSE IF pattern = "odd" /\ SlideNumber(path) % 2 = 1 THEN 1
    ELSE 0

\* the archives of up to MaxParts parts, in every enumeration order
Archives ==
    { [k \in 1..Len(q) |-> [path |-> q[k], chunks |-> ChunksIn(t, q[k])]] :
        q \in { r \in UNION { [1..n -> PartPool] : n \in 0..MaxParts } :
                    \A a, b \in 1..Len(r) : a # b => r[a] # r[b] },
        t \in TextPatterns }

DeckDocsFor(name) == { DocArchive(a, "sound") : a \in Archives }

InitDeck ==
    InitWith(LoadJobs({ << "a" >> \o ExtPptx }), DeckDocsFor,
             Remotes({"throw"}, {"alternate"}))

\* a presentation job up to its reconstruction
NextDeck ==
    \/ handleTranslation
    \/ extract
    \/ \E u \in Units : readSlide(u)
    \/ \E u \in Units : \E i \in 1..Len(doc.units[u]) : settle(u, i)
    \/ createOutput

\* presentation jobs over archives in every enumeration order
SpecDeck == InitDeck /\ [][NextDeck]_vars

\* ------------------------------------------------------------- CSV files

KeyName == << "n", "a", "m", "e" >>
KeyAge == << "a", "g", "e" >>

\* the headers of one and of two columns
CsvHeaders == { << KeyName >>, << KeyName, KeyAge >> }

\* the values a field may hold: plain ones, and one that holds the
\* delimiter
FieldTexts ==
    { << "A", "l" >>, << "3", "0" >>, << "B", "o" >>,
      << "x", "|", "|", "|", "y" >> }

\* the tables csv-parse may read: an empty file, a header row alone, and
\* up to MaxRows records
CsvTables ==
    { [header |-> << >>, rows |-> << >>] }
    \cup { [header |-> h, rows |-> rs] :
        h \in CsvHeaders,
        rs \in UNION { [1..n -> UNION { [1..w -> FieldTexts] : w \in 1..2 }] :
                         n \in 0..MaxRows } }

CsvDocsFor(name) ==
    { DocCsv(t.header, t.rows) :
        t \in { c \in CsvTables :
                   \A r \in 1..Len(c.rows) : Len(c.rows[r]) = Len(c.header) } }

InitCsv ==
    InitWith(LoadJobs({ << "a" >> \o ExtCsv }), CsvDocsFor, EchoRemotes)

\* a CSV job up to its reconstruction
NextCsv ==
    \/ handleTranslation
    \/ extract
    \/ \E u \in Units : \E i \in 1..Len(doc.units[u]) : settle(u, i)
    \/ createOutput

\* CSV jobs whose text fits in one chunk, with a translation service that
\* returns every input unchanged
SpecCsv == InitCsv /\ [][NextCsv]_vars

\* a CSV job to its end
NextCsvJob ==
    \/ handleTranslation
    \/ extract
    \/ \E u \in Units : \E i \in 1..Len(doc.units[u]) : settle(u, i)
    \/ createOutput
    \/ writeFile
    \/ complete

\* CSV jobs of no, one or more records, run to their end
SpecCsvJob == InitCsv /\ [][NextCsvJob]_vars

\* ------------------------------------------------ translateImageDirect

\* the paragraphs the OCR service may report, each a list of words: one
\* word, two words, and none
ParagraphPool ==
    { << << "H", "i" >> >>,
      << << "B", "y", "e" >>, << "y", "o", "u" >> >>,
      << >> }

\* the page of fullTextAnnotation: its width and height in pixels, 0 when
\* the result carries none
NoPage == [width |-> 0, height |-> 0]
SmallPage == [width |-> 200, height |-> 100]

\* boundingBox.vertices of a word: a box inside the small page, a second
\* one to its right and below, and one of an image wider than 1000 pixels
SoundBox == << [x |-> 20, y |-> 10], [x |-> 60, y |-> 10],
               [x |-> 60, y |-> 30], [x |-> 20, y |-> 30] >>
NextBox == << [x |-> 80, y |-> 20], [x |-> 120, y |-> 20],
              [x |-> 120, y |-> 50], [x |-> 80, y |-> 50] >>
WideBox == << [x |-> 1200, y |-> 40], [x |-> 1500, y |-> 40],
              [x |-> 1500, y |-> 80], [x |-> 1200, y |-> 80] >>

\* every word of every paragraph with the same sound box
SoundBoxes(ps) == [p \in 1..Len(ps) |-> [w \in 1..Len(ps[p]) |-> SoundBox]]

\* what textDetection may give: an error, or textAnnotations (undefined: -1,
\* or so many) with the paragraphs of fullTextAnnotation, the boxes of
\* their words and the page
Images ==
    { [ocr |-> "throw", detections |-> 0, paragraphs |-> << >>,
       boxes |-> << >>, page |-> NoPage] }
    \cup { [ocr |-> "ok", detections |-> d, paragraphs |-> ps,
            boxes |-> SoundBoxes(ps), page |-> SmallPage] :
              d \in {-1, 0, 1},
              ps \in UNION { [1..n -> ParagraphPool] : n \in 0..MaxParagraphs } }

\* the boxes the words of a paragraph may carry on a page with dimensions:
\* inside the page, or none; and on a page without: any of the three, or
\* none
WordBoxes(page) ==
    IF page = NoPage THEN { << >>, SoundBox, NextBox, WideBox }
    ELSE { << >>, SoundBox, NextBox }

\* OCR results of up to MaxBoxed paragraphs with every choice of boxes, on a
\* page with and without dimensions
BoxedImagesOn(page) ==
    { [ocr |-> "ok", detections |-> 1, paragraphs |-> ps, boxes |-> bs,
       page |-> page] :
        ps \in UNION { [1..n -> ParagraphPool] : n \in 0..MaxBoxed },
        bs \in UNION { [1..n -> UNION { [1..m -> WordBoxes(page)] :
                                           m \in 0..2 }] :
                          n \in 0..MaxBoxed } }
BoxedImages == BoxedImagesOn(NoPage) \cup BoxedImagesOn(SmallPage)

\* how the batch translation call may be answered: an error, no content, or
\* a content of lines
BatchResponses ==
    { [kind |-> "throw", content |-> << >>],
      [kind |-> "missing", content |-> << >>],
      [kind |-> "content", content |-> << >>],
      [kind |-> "content", content |-> << " ", "\n", " " >>],
      [kind |-> "content", content |-> << "u" >>],
      [kind |-> "content", content |-> << " ", "u", " ", "\n", " ", "v", "\n" >>],
      [kind |-> "content", content |-> << "\n", "u", "\n", "v" >>],
      [kind |-> "content",
       content |-> << "u", "\n", "v", " ", "\n", "w", "\n", "x", "\n", "y" >>] }

\* how the vision call may be answered: an error, no content, a content
\* that is a JSON text, bare or in a markdown fence, or something else, or
\* a content that is an array of parts, the first with this text
VisionResponses ==
    { [kind |-> "throw", content |-> << >>],
      [kind |-> "parts", content |-> << "{segments:[F]}" >>],
      [kind |-> "missing", content |-> << >>],
      [kind |-> "content", content |-> << " " >>],
      [kind |-> "content", content |-> << "{segments:[F]}" >>],
      [kind |-> "content", content |-> << "{segments:[]}" >>],
      [kind |-> "content",
       content |-> << "<fence>json", "\n", "{segments:[F]}", "\n", "<fence>" >>],
      [kind |-> "content", content |-> << "<fence>json", "{segments:[F]}", "<fence>" >>],
      [kind |-> "content", content |-> << "Here", " ", "{segments:[F]}" >>],
      [kind |-> "content",
       content |-> << "<fence>json", "\n", "Sorry", "\n", "<fence>" >>],
      [kind |-> "content", content |-> << "{text:F}" >>] }

\* the segment the vision model reports in the answers above
FallbackSegment == [original |-> << "F" >>, translated |-> << "G" >>]

\* words.join(' ') of one paragraph
ParagraphText(words) == Join(words, << " " >>)

\* the Infinity of JavaScript and its negative, as numbers beyond every
\* coordinate
Infinity == 1000000000

\* pages?.[0]?.width || 1000
DefaultDimension == 1000
imageWidth(page) == IF page.width = 0 THEN DefaultDimension ELSE page.width
imageHeight(page) == IF page.height = 0 THEN DefaultDimension ELSE page.height

Max(a, b) == IF a > b THEN a ELSE b

\* all the vertices of the words of a paragraph
RECURSIVE Vertices(_)
Vertices(wordBoxes) ==
    IF Len(wordBoxes) = 0 THEN << >>
    ELSE wordBoxes[1] \o Vertices(Tail(wordBoxes))

\* the loops over words and vertices: Math.min from Infinity, Math.max from 0
RECURSIVE MinOf(_, _)
MinOf(vs, start) ==
    IF Len(vs) = 0 THEN start ELSE MinOf(Tail(vs), Min(start, vs[1]))
RECURSIVE MaxOf(_, _)
MaxOf(vs, start) ==
    IF Len(vs) = 0 THEN start ELSE MaxOf(Tail(vs), Max(start, vs[1]))

\* (a / dimension) * 100, and b - a, where a may be Infinity
Percent(a, dimension) ==
    IF a = Infinity THEN Infinity
    ELSE IF a = -Infinity THEN -Infinity
    ELSE (a * 100) \div dimension
Extent(b, a) == IF a = Infinity THEN -Infinity ELSE b - a

\* the position of a paragraph: its bounding box over the vertices of its
\* words, in percent of the page
Position(wordBoxes, page) ==
    LET vs == Vertices(wordBoxes)
        xs == [k \in 1..Len(vs) |-> vs[k].x]
        ys == [k \in 1..Len(vs) |-> vs[k].y]
        minX == MinOf(xs, Infinity)
        minY == MinOf(ys, Infinity)
        maxX == MaxOf(xs, 0)
        maxY == MaxOf(ys, 0)
    IN  [x |-> Percent(minX, imageWidth(page)),
         y |-> Percent(minY, imageHeight(page)),
         width |-> Percent(Extent(maxX, minX), imageWidth(page)),
         height |-> Percent(Extent(maxY, minY), imageHeight(page))]

RECURSIVE BuildSegments(_, _, _)
\* step 2 of translateImageDirect: one segment per paragraph whose text is
\* not blank, in the order the OCR service lists them, with its position
BuildSegments(paragraphs, boxes, page) ==
    IF Len(paragraphs) = 0 THEN << >>
    ELSE IF NonBlank(ParagraphText(paragraphs[1]))
         THEN << [position |-> Position(boxes[1], page),
                  original |-> ParagraphText(paragraphs[1]),
                  translated |-> << >>] >>
                  \o BuildSegments(Tail(paragraphs), Tail(boxes), page)
         ELSE BuildSegments(Tail(paragraphs), Tail(boxes), page)

\* an OCR result without text taken for a failure
OcrBranchEmptyFallsBack(im) ==
    IF im.ocr = "throw" \/ im.detections <= 0 THEN "fallback"
    ELSE IF Len(BuildSegments(im.paragraphs, im.boxes, im.page)) > 0 THEN "batch"
    ELSE "return"

\* translateImageDirect after textDetection: the catch block's fallback
\* when it raised, an early return without detections, the batch
\* translation when there are segments, a plain return when there are none
OcrBranch(im) ==
    IF im.ocr = "throw" THEN "fallback"
    ELSE IF im.detections <= 0 THEN "empty"
    ELSE IF Len(BuildSegments(im.paragraphs, im.boxes, im.page)) > 0 THEN "batch"
    ELSE "return"

\* the content taken as it comes
BatchTextUntrimmed(r) == r.content

\* response.data?.choices?.[0]?.message?.content?.trim()
BatchText(r) == IF r.kind = "content" THEN Trim(r.content) ELSE << >>

\* the lines assigned as they come
AssignLinesUntrimmed(segs, lines) ==
    [i \in 1..Len(segs) |->
        IF i <= Len(lines) THEN [segs[i] EXCEPT !.translated = lines[i]]
        ELSE segs[i]]

\* the loop of step 3: line i, trimmed, for segment i, up to the shorter of
\* the two
AssignLines(segs, lines) ==
    [i \in 1..Len(segs) |->
        IF i <= Len(lines) THEN [segs[i] EXCEPT !.translated = Trim(lines[i])]
        ELSE segs[i]]

RECURSIVE StripFences(_)
\* the content taken as it comes
StripFencesNot(content) == content

\* content.replace(/<fence>json\n?|\n?<fence>/g, '') with <fence> for the
\* three backquotes of a markdown fence: every opening fence with the
\* line break after it and every closing fence with the line break before
\* it are removed
StripFences(content) ==
    IF Len(content) = 0 THEN content
    ELSE IF content[1] = "<fence>json"
    THEN IF Len(content) >= 2 /\ content[2] = "\n"
         THEN StripFences(SubSeq(content, 3, Len(content)))
         ELSE StripFences(Tail(content))
    ELSE IF content[1] = "\n" /\ Len(content) >= 2 /\ content[2] = "<fence>"
    THEN StripFences(SubSeq(content, 3, Len(content)))
    ELSE IF content[1] = "<fence>" THEN StripFences(Tail(content))
    ELSE << content[1] >> \o StripFences(Tail(content))

\* JSON.parse on the texts the vision model answers with
JsonParse(text) ==
    IF text = << "{segments:[F]}" >>
    THEN [valid |-> TRUE, hasSegments |-> TRUE,
          value |-> [segments |-> << FallbackSegment >>]]
    ELSE IF text = << "{segments:[]}" >>
    THEN [valid |-> TRUE, hasSegments |-> TRUE, value |-> [segments |-> << >>]]
    ELSE IF text = << "{text:F}" >>
    THEN [valid |-> TRUE, hasSegments |-> FALSE, value |-> [segments |-> << >>]]
    ELSE [valid |-> FALSE, hasSegments |-> FALSE, value |-> [segments |-> << >>]]

VisionEmptyError == [message |-> << "Invalid or empty AI response." >>]
VisionParseError == [message |-> << "Failed to parse AI response as JSON: " >>]
VisionShapeError ==
    [message |-> << "Invalid response structure: missing segments array" >>]

\* content?.trim() and translated.trim() on a content that is an array: the
\* array has no trim to call
TrimTypeError == [message |-> << "trim is not a function" >>]

\* a fallback that answers with no segments when it cannot read the reply
translateImageWithVisionLenient(r) ==
    IF r.kind = "throw"
    THEN [kind |-> "raised", value |-> [segments |-> << >>], error |-> RemoteError]
    ELSE IF r.kind = "parts"
    THEN [kind |-> "raised", value |-> [segments |-> << >>],
          error |-> TrimTypeError]
    ELSE IF r.kind = "missing" \/ Trim(r.content) = << >>
    THEN [kind |-> "raised", value |-> [segments |-> << >>],
          error |-> VisionEmptyError]
    ELSE LET parsed == JsonParse(Trim(StripFences(Trim(r.content))))
         IN  IF parsed.valid /\ parsed.hasSegments
             THEN [kind |-> "returned", value |-> parsed.value,
                   error |-> NoError]
             ELSE [kind |-> "returned", value |-> [segments |-> << >>],
                   error |-> NoError]

\* translateImageWithVision, given how its axios.post settled
translateImageWithVision(r) ==
    IF r.kind = "throw"
    THEN [kind |-> "raised", value |-> [segments |-> << >>], error |-> RemoteError]
    ELSE IF r.kind = "parts"
    THEN [kind |-> "raised", value |-> [segments |-> << >>],
          error |-> TrimTypeError]
    ELSE IF r.kind = "missing" \/ Trim(r.content) = << >>
    THEN [kind |-> "raised", value |-> [segments |-> << >>],
          error |-> VisionEmptyError]
    ELSE LET parsed == JsonParse(Trim(StripFences(Trim(r.content))))
         IN  IF ~parsed.valid
             THEN [kind |-> "raised", value |-> [segments |-> << >>],
                   error |-> VisionParseError]
             ELSE IF ~parsed.hasSegments
             THEN [kind |-> "raised", value |-> [segments |-> << >>],
                   error |-> VisionShapeError]
             ELSE [kind |-> "returned", value |-> parsed.value,
                   error |-> NoError]

\* translateImageDirect up to its first axios.post or its return
translateImageDirect ==
    /\ imgPc = "start"
    /\ LET b == OcrBranch(image)
       IN  IF b = "fallback"
           THEN /\ apiCalls' = Append(apiCalls, "vision")
                /\ imgPc' = "vision"
                /\ UNCHANGED << segments, imgResult >>
           ELSE IF b = "empty"
           THEN /\ imgResult' = [kind |-> "returned",
                                  value |-> [segments |-> << >>],
                                  error |-> NoError]
                /\ imgPc' = "returned"
                /\ UNCHANGED << segments, apiCalls >>
           ELSE IF b = "batch"
           THEN /\ segments' = BuildSegments(image.paragraphs, image.boxes,
                                              image.page)
                /\ apiCalls' = Append(apiCalls, "batch")
                /\ imgPc' = "batch"
                /\ UNCHANGED imgResult
           ELSE /\ segments' = BuildSegments(image.paragraphs, image.boxes,
                                              image.page)
                /\ imgResult' = [kind |-> "returned",
                                  value |-> [segments |-> segments'],
                                  error |-> NoError]
                /\ imgPc' = "returned"
                /\ UNCHANGED apiCalls
    /\ UNCHANGED << jobVars, reqVars, image, replies >>

\* the batch translation call settles: its lines go to the segments, or,
\* when it raised or its content is empty, the catch block calls the
\* fallback
batchSettles ==
    /\ imgPc = "batch"
    /\ \E r \in BatchResponses :
         /\ replies' = [replies EXCEPT !.batch = r]
         /\ IF r.kind = "throw" \/ r.kind = "missing" \/ BatchText(r) = << >>
            THEN /\ apiCalls' = Append(apiCalls, "vision")
                 /\ imgPc' = "vision"
                 /\ UNCHANGED << segments, imgResult >>
            ELSE /\ segments' = AssignLines(segments,
                                            Split(BatchText(r), << "\n" >>))
                 /\ imgResult' = [kind |-> "returned",
                                   value |-> [segments |-> segments'],
                                   error |-> NoError]
                 /\ imgPc' = "returned"
                 /\ UNCHANGED apiCalls
    /\ UNCHANGED << jobVars, reqVars, image >>

\* the vision call settles: translateImageWithVision returns the parsed
\* object or raises, and so does translateImageDirect
visionSettles ==
    /\ imgPc = "vision"
    /\ \E r \in VisionResponses :
         /\ replies' = [replies EXCEPT !.vision = r]
         /\ imgResult' = translateImageWithVision(r)
         /\ imgPc' = imgResult'.kind
    /\ UNCHANGED << jobVars, reqVars, image, segments, apiCalls >>

\* no document job is running
NoDocsFor(name) == { DocText(0) }

InitImage ==
    /\ ImageInit(Images, "start")
    /\ ReqIdle
    /\ JobInit(LoadJobs({ << "a" >> \o ExtTxt }), NoDocsFor,
               Remotes({"throw"}, {"none"}))

NextImage ==
    \/ translateImageDirect
    \/ batchSettles
    \/ visionSettles

\* image requests, every way the OCR, batch and vision calls may answer
SpecImage == InitImage /\ [][NextImage]_vars

InitBoxed ==
    /\ ImageInit({ im \in BoxedImages :
                      /\ Len(im.boxes) = Len(im.paragraphs)
                      /\ \A p \in 1..Len(im.paragraphs) :
                            Len(im.boxes[p]) = Len(im.paragraphs[p]) },
                 "start")
    /\ ReqIdle
    /\ JobInit(LoadJobs({ << "a" >> \o ExtTxt }), NoDocsFor,
               Remotes({"throw"}, {"none"}))

\* image requests over OCR results with every choice of word boxes
SpecBoxed == InitBoxed /\ [][NextImage]_vars

\* ------------------------------------------------- translateAudioDirect

\* what result.alternatives?.[0]?.transcript may be for one result of the
\* speech service: undefined, the empty string, white space, or words
TranscriptPool ==
    { [defined |-> FALSE, text |-> << >>],
      [defined |-> TRUE, text |-> << >>],
      [defined |-> TRUE, text |-> << " " >>],
      [defined |-> TRUE, text |-> << "H", "i" >>] }

\* what client.recognize may give: an error, a response without results
\* (results |-> << >> stands for undefined and for the empty list alike),
\* or a list of results
Audios ==
    { [recognize |-> "throw", results |-> << >>] }
    \cup { [recognize |-> "ok", results |-> rs] :
              rs \in UNION { [1..n -> TranscriptPool] : n \in 0..MaxResults } }

\* how the axios.post of translateTextDirect may be answered
TextResponses ==
    { [kind |-> "throw", content |-> << >>],
      [kind |-> "parts", content |-> << "X", "i", "n" >>],
      [kind |-> "missing", content |-> << >>],
      [kind |-> "content", content |-> << >>],
      [kind |-> "content", content |-> << " ", "X", "i", "n", " " >>] }

\* Boolean(transcript): undefined and the empty string are dropped
Truthy(t) == t.defined /\ t.text # << >>

RECURSIVE Transcripts(_)
\* results?.map(transcript).filter(Boolean)
Transcripts(results) ==
    IF Len(results) = 0 THEN << >>
    ELSE IF Truthy(results[1])
         THEN << results[1].text >> \o Transcripts(Tail(results))
         ELSE Transcripts(Tail(results))

\* every transcript joined, the undefined and the empty ones too
TranscriptionUnfiltered(results) ==
    Join([k \in 1..Len(results) |-> results[k].text], << "\n" >>)

\* the transcription: the transcripts that are left, joined by line breaks,
\* or the empty string
Transcription(results) == Join(Transcripts(results), << "\n" >>)

NoSpeechMessage == << "No speech detected in the audio file" >>
TextInvalidError == [message |-> << "Invalid response from translation API." >>]

\* the catch block of translateAudioDirect
AudioError(error) ==
    [message |-> << "Audio translation failed: " >> \o error.message]

\* translateTextDirect, given how its axios.post settled
translateTextDirect(r) ==
    IF r.kind = "throw"
    THEN [kind |-> "raised", value |-> << >>, error |-> RemoteError]
    ELSE IF r.kind = "missing" \/ r.content = << >>
    THEN [kind |-> "raised", value |-> << >>, error |-> TextInvalidError]
    ELSE IF r.kind = "parts"
    THEN [kind |-> "raised", value |-> << >>, error |-> TrimTypeError]
    ELSE [kind |-> "returned", value |-> Trim(r.content), error |-> NoError]

\* translateAudioDirect up to the call of translateTextDirect or its return
translateAudioDirect ==
    /\ audPc = "start"
    /\ IF audio.recognize = "throw"
       THEN /\ audResult' = [kind |-> "raised", value |-> NoAudioValue,
                             error |-> AudioError(RemoteError)]
            /\ audPc' = "raised"
            /\ UNCHANGED audCalls
       ELSE IF Transcription(audio.results) = << >>
       THEN /\ audResult' = [kind |-> "returned",
                             value |-> [success |-> FALSE,
                                        message |-> NoSpeechMessage,
                                        originalText |-> << >>,
                                        translatedText |-> << >>],
                             error |-> NoError]
            /\ audPc' = "returned"
            /\ UNCHANGED audCalls
       ELSE /\ audCalls' = Append(audCalls, Transcription(audio.results))
            /\ audPc' = "translating"
            /\ UNCHANGED audResult
    /\ UNCHANGED << exceptAud, audio >>

\* translateTextDirect settles: its text goes into the result, or its error
\* into the catch block
textSettles ==
    /\ audPc = "translating"
    /\ \E r \in TextResponses :
         LET t == translateTextDirect(r)
         IN  IF t.kind = "raised"
             THEN /\ audResult' = [kind |-> "raised", value |-> NoAudioValue,
                                   error |-> AudioError(t.error)]
                  /\ audPc' = "raised"
             ELSE /\ audResult' = [kind |-> "returned",
                                   value |-> [success |-> TRUE,
                                              message |-> << >>,
                                              originalText
                                                 |-> Transcription(audio.results),
                                              translatedText |-> t.value],
                                   error |-> NoError]
                  /\ audPc' = "returned"
    /\ UNCHANGED << exceptAud, audio, audCalls >>

\* no document job is running and no image request
InitAudio ==
    /\ AudioInit(Audios, "start")
    /\ DownloadInit({{}})
    /\ QueueInit({EmptyQueue})
    /\ UploadInit({NoUpload}, {NoConfig}, "idle")
    /\ ImageInit({NoImage}, "idle")
    /\ OtherIdle
    /\ JobInit(LoadJobs({ << "a" >> \o ExtTxt }), NoDocsFor,
               Remotes({"throw"}, {"none"}))

NextAudio ==
    \/ translateAudioDirect
    \/ textSettles

\* audio requests, every way the speech and translation calls may answer
SpecAudio == InitAudio /\ [][NextAudio]_vars

\* ---------------------------------------------------------- downloadFile

\* fileName.includes('..')
IncludesDotDot(fileName) ==
    \E k \in 1..(Len(fileName) - 1) : fileName[k] = "." /\ fileName[k + 1] = "."

\* only the empty name refused
InvalidNameEmptyOnly(fileName) == fileName = << >>

\* !fileName || fileName.includes('..')
InvalidName(fileName) == fileName = << >> \/ IncludesDotDot(fileName)

\* the chain of comparisons on the lowered extension: the content type, or
\* none
ContentTypeOf(fileExtension) ==
    IF fileExtension = ExtPdf THEN << "application/pdf" >>
    ELSE IF fileExtension = ExtDocx
    THEN << "application/vnd.openxmlformats-officedocument.wordprocessingml.document" >>
    ELSE IF fileExtension = ExtXlsx
    THEN << "application/vnd.openxmlformats-officedocument.spreadsheetml.sheet" >>
    ELSE IF fileExtension = ExtCsv THEN << "text/csv" >>
    ELSE IF fileExtension = ExtTxt THEN << "text/plain" >>
    ELSE IF fileExtension = ExtPptx
    THEN << "application/vnd.openxmlformats-officedocument.presentationml.presentation" >>
    ELSE << >>

\* a close handler that leaves the file where it is
unlinkSyncNot(d, fileName) == d

\* unlinkSync in the close handler: the file is gone; when it was gone
\* already the error is caught
unlinkSync(d, fileName) == d \ {fileName}

\* what downloadFile throws, and what it sends
HttpException(fileName, status, message, touched) ==
    [name |-> fileName, status |-> status, message |-> << message >>,
     contentType |-> << >>, stat |-> touched]
Streaming(fileName, contentType) ==
    [name |-> fileName, status |-> 200, message |-> << >>,
     contentType |-> contentType, stat |-> TRUE]

\* the worker's fs.writeFile puts a file of a new name into the directory
outputWritten ==
    /\ \E name \in OutputNames \ written :
         /\ dir' = dir \cup {name}
         /\ written' = written \cup {name}
    /\ UNCHANGED << exceptDl, open, served, dlResponse, startedNames,
                    closedNames, opening, uncaught, overlapped >>

\* downloadFile: the name is checked, then the file, then the extension,
\* and a read stream of the file, which is opened later, is piped into the
\* response
downloadFile ==
    /\ served < MaxDownloads
    /\ \E fileName \in DownloadNames :
         /\ open[fileName] < MaxOpen
         /\ served' = served + 1
         /\ IF InvalidName(fileName)
            THEN /\ dlResponse' = HttpException(fileName, 400,
                                                "Invalid filename.", FALSE)
                 /\ UNCHANGED << open, startedNames, opening, overlapped >>
            ELSE IF fileName \notin dir
            THEN /\ dlResponse' = HttpException(fileName, 404,
                                                "File not found.", TRUE)
                 /\ UNCHANGED << open, startedNames, opening, overlapped >>
            ELSE IF ContentTypeOf(ToLowerCase(ExtName(fileName))) = << >>
            THEN /\ dlResponse' = HttpException(fileName, 400,
                                     "Unsupported file type for download.", TRUE)
                 /\ UNCHANGED << open, startedNames, opening, overlapped >>
            ELSE /\ dlResponse' = Streaming(fileName,
                                     ContentTypeOf(ToLowerCase(ExtName(fileName))))
                 /\ open' = [open EXCEPT ![fileName] = @ + 1]
                 /\ opening' = [opening EXCEPT ![fileName] = @ + 1]
                 /\ startedNames' = startedNames \cup {fileName}
                 /\ overlapped' = IF open[fileName] > 0
                                  THEN overlapped \cup {fileName}
                                  ELSE overlapped
    /\ UNCHANGED << exceptDl, dir, written, closedNames, uncaught >>

\* the file of a read stream is opened, after the handler has returned: when
\* the file is gone by then the stream emits an error, and nothing listens
\* for it
streamOpens ==
    /\ \E fileName \in DownloadNames :
         /\ opening[fileName] > 0
         /\ opening' = [opening EXCEPT ![fileName] = @ - 1]
         /\ uncaught' = IF fileName \in dir THEN uncaught
                        ELSE uncaught \cup {fileName}
    /\ UNCHANGED << exceptDl, dir, open, served, dlResponse, written,
                    startedNames, closedNames, overlapped >>

\* the response of a download closes: the close handler deletes the file
responseCloses ==
    /\ \E fileName \in DownloadNames :
         /\ open[fileName] > 0
         /\ open' = [open EXCEPT ![fileName] = @ - 1]
         /\ dir' = unlinkSync(dir, fileName)
         /\ closedNames' = closedNames \cup {fileName}
    /\ UNCHANGED << exceptDl, served, dlResponse, written, startedNames,
                    opening, uncaught, overlapped >>

\* no other request and no document job
InitDownload ==
    /\ DownloadInit(SUBSET ForeignFiles)
    /\ AudioInit({NoAudio}, "idle")
    /\ QueueInit({EmptyQueue})
    /\ UploadInit({NoUpload}, {NoConfig}, "idle")
    /\ ImageInit({NoImage}, "idle")
    /\ OtherIdle
    /\ JobInit(LoadJobs({ << "a" >> \o ExtTxt }), NoDocsFor,
               Remotes({"throw"}, {"none"}))

NextDownload ==
    \/ outputWritten
    \/ downloadFile
    \/ streamOpens
    \/ responseCloses

\* downloads of the files the worker writes, and of other names
SpecDownload == InitDownload /\ [][NextDownload]_vars

\* ------------------------------------- startTranslationJob, getJobStatus

\* the options every job is added with
JobOptions == [removeOnComplete |-> TRUE, removeOnFail |-> TRUE]

\* the jobs getJob may find under an id, with what isCompleted and isFailed
\* answer for them
StoredJobs ==
    { NoJob }
    \cup { [exists |-> TRUE, isActive |-> a, isCompleted |-> FALSE,
            isFailed |-> FALSE, returnvalue |-> << >>, failedReason |-> << >>] :
              a \in BOOLEAN }
    \cup { [exists |-> TRUE, isActive |-> FALSE, isCompleted |-> c,
            isFailed |-> f,
            returnvalue |-> IF c THEN << "translated-1-7.txt" >> ELSE << >>,
            failedReason |-> IF f THEN << "Unsupported file type: .xyz" >>
                             ELSE << >>] :
              c \in BOOLEAN, f \in BOOLEAN }

\* a getJobStatus that looks at isFailed first
getJobStatusFailedFirst(q, jobId) ==
    IF ~q[jobId].exists
    THEN [jobId |-> jobId, status |-> "not_found", result |-> << >>,
          reason |-> << >>]
    ELSE IF q[jobId].isFailed
    THEN [jobId |-> jobId, status |-> "failed", result |-> << >>,
          reason |-> q[jobId].failedReason]
    ELSE IF q[jobId].isCompleted
    THEN [jobId |-> jobId, status |-> "completed",
          result |-> q[jobId].returnvalue, reason |-> << >>]
    ELSE [jobId |-> jobId, status |-> "processing", result |-> << >>,
          reason |-> << >>]

\* getJobStatus on the queue as it is: getJob, isCompleted and isFailed
\* find the same job
getJobStatus(q, jobId) ==
    IF ~q[jobId].exists
    THEN [jobId |-> jobId, status |-> "not_found", result |-> << >>,
          reason |-> << >>]
    ELSE IF q[jobId].isCompleted
    THEN [jobId |-> jobId, status |-> "completed",
          result |-> q[jobId].returnvalue, reason |-> << >>]
    ELSE IF q[jobId].isFailed
    THEN [jobId |-> jobId, status |-> "failed", result |-> << >>,
          reason |-> q[jobId].failedReason]
    ELSE [jobId |-> jobId, status |-> "processing", result |-> << >>,
          reason |-> << >>]

\* a status request for some job id
statusRequest ==
    /\ asked < MaxQueries
    /\ \E jobId \in JobIds :
         /\ statusResp' = getJobStatus(queue, jobId)
         /\ observed' = [observed EXCEPT
                            ![jobId] = Append(@, statusResp'.status)]
    /\ asked' = asked + 1
    /\ UNCHANGED << exceptQ, queue >>

\* translationQueue.add: the job waits in the queue under its id
QueueAdd(q, id) == [q EXCEPT ![id] = [NoJob EXCEPT !.exists = TRUE]]

\* startTranslationJob: translationQueue.add(jobData, jobOptions)
startTranslationJob ==
    /\ ~queue[job.id].exists
    /\ pc = "start"
    /\ observed[job.id] = << >>
    /\ queue' = QueueAdd(queue, job.id)
    /\ UNCHANGED << exceptQ, asked, statusResp, observed >>

\* Bull hands the waiting job to the processor
jobTaken ==
    /\ queue[job.id].exists
    /\ ~queue[job.id].isActive
    /\ pc = "start"
    /\ queue' = [queue EXCEPT ![job.id].isActive = TRUE]
    /\ UNCHANGED << exceptQ, asked, statusResp, observed >>

\* the processor at work on the job it was handed
jobRuns ==
    /\ queue[job.id].exists
    /\ queue[job.id].isActive
    /\ \/ handleTranslation
       \/ extract
       \/ \E u \in Units : \E i \in 1..Len(doc.units[u]) : settle(u, i)
       \/ createOutput
       \/ writeFile
       \/ complete

\* handleTranslation has returned or thrown: Bull moves the job to completed
\* or failed, which with the job's options removes it from the queue
jobSettles ==
    /\ queue[job.id].exists
    /\ queue[job.id].isActive
    /\ pc \in {"completed", "failed"}
    /\ queue' = [queue EXCEPT ![job.id] =
          IF pc = "completed"
          THEN IF JobOptions.removeOnComplete THEN NoJob
               ELSE [NoJob EXCEPT !.exists = TRUE, !.isCompleted = TRUE,
                                  !.returnvalue = result.translatedFileName]
          ELSE IF JobOptions.removeOnFail THEN NoJob
               ELSE [NoJob EXCEPT !.exists = TRUE, !.isFailed = TRUE,
                                  !.failedReason = result.error.message]]
    /\ UNCHANGED << exceptQ, asked, statusResp, observed >>

\* status requests against every queue content
InitStatusAny ==
    /\ QueueInit([JobIds -> StoredJobs])
    /\ UploadInit({NoUpload}, {NoConfig}, "idle")
    /\ AudioInit({NoAudio}, "idle")
    /\ DownloadInit({{}})
    /\ ImageInit({NoImage}, "idle")
    /\ OtherIdle
    /\ JobInit(LoadJobs({ << "a" >> \o ExtTxt }), NoDocsFor,
               Remotes({"throw"}, {"none"}))

SpecStatusAny == InitStatusAny /\ [][statusRequest]_vars

\* a job from its enqueueing to its end, with status requests in between
InitStatus ==
    /\ QueueInit({EmptyQueue})
    /\ UploadInit({NoUpload}, {NoConfig}, "idle")
    /\ AudioInit({NoAudio}, "idle")
    /\ DownloadInit({{}})
    /\ ImageInit({NoImage}, "idle")
    /\ OtherIdle
    /\ JobInit(LoadJobs({ << "a" >> \o ExtTxt, << "a", ".", "x", "y", "z" >> }),
               DocsFor, Remotes({"throw"}, {"any"}))

NextStatus ==
    \/ startTranslationJob
    \/ jobTaken
    \/ jobRuns
    \/ jobSettles
    \/ statusRequest

SpecStatus == InitStatus /\ [][NextStatus]_vars

\* -------------------------------------------------------------- uploadPdf

MimePdf == "application/pdf"
MimeDocx ==
    "application/vnd.openxmlformats-officedocument.wordprocessingml.document"
MimeTxt == "text/plain"
MimeXlsx == "application/vnd.openxmlformats-officedocument.spreadsheetml.sheet"
MimePptx ==
    "application/vnd.openxmlformats-officedocument.presentationml.presentation"

allowedMimeTypes == { MimePdf, MimeDocx, MimeTxt, MimeXlsx, MimePptx }

\* UPLOAD_LIMIT_KB ?? 10
DefaultLimitKb == 10
BytesPerKb == 1024

\* the configurations: the switch set to true, to something else, or unset,
\* and the limit set or left to its default
Configs ==
    { [enabled |-> e, limitKb |-> k] :
        e \in {"true", "false", "TRUE", ""}, k \in {0, 2} }

limitKb == IF config.limitKb = 0 THEN DefaultLimitKb ELSE config.limitKb
limitBytes == limitKb * BytesPerKb
isLimitEnabled == config.enabled = "true"

\* the uploads: with or without socket id, of every allowed type and of two
\* that are not, of sizes around both limits; and those without a file
Uploads ==
    { [present |-> TRUE, mimetype |-> m, size |-> z,
       originalname |-> << "a" >> \o ExtTxt, targetLanguage |-> l,
       isUserPremium |-> prem, socketId |-> sock] :
        m \in allowedMimeTypes \cup {"text/csv", "image/jpeg"},
        z \in {0, 2 * BytesPerKb, 2 * BytesPerKb + 1,
               DefaultLimitKb * BytesPerKb, DefaultLimitKb * BytesPerKb + 1},
        l \in {"", "French"}, prem \in BOOLEAN, sock \in {"", "sock-1"} }
    \cup { [NoUpload EXCEPT !.socketId = sock] : sock \in {"", "sock-1"} }

\* the null of a payload, which no job id equals
Null == "null"

TooLargeReason == << "File is too large. Limit: " >> \o Digits(limitKb)
                      \o << "KB." >>
SocketRequiredError == << "Socket ID is required." >>
UnsupportedTypeError ==
    << "Unsupported file type. Only PDF, DOCX, TXT, XLSX, PPTX are allowed." >>
TooLargeError == << "File upload failed. Free users are limited to " >>
                     \o Digits(limitKb) \o << "KB." >>
\* file.mimetype read of an upload without a file
FileTypeError == << "TypeError" >>
ReceivedMessage == << "File received. Translation started." >>

\* a limit that holds for premium users too
SizeLimitAppliesToAll(file, isUserPremium) ==
    isLimitEnabled /\ file.size > limitBytes

\* isLimitEnabled && !isUserPremium && file.size > limitBytes
SizeLimitApplies(file, isUserPremium) ==
    isLimitEnabled /\ ~isUserPremium /\ file.size > limitBytes

UploadRaised(message) ==
    [kind |-> "raised", message |-> message, jobId |-> "",
     targetLanguage |-> ""]

\* uploadPdf: the socket id, the type and the size are checked, then the
\* job is enqueued; an upload without a file throws when its type is read,
\* and translationQueue.add may fail
uploadPdf ==
    /\ upPc = "start"
    /\ IF upload.socketId = ""
       THEN /\ upResponse' = UploadRaised(SocketRequiredError)
            /\ upPc' = "raised"
            /\ UNCHANGED << events, startCalls, queue >>
       ELSE IF ~upload.present
       THEN /\ upResponse' = UploadRaised(FileTypeError)
            /\ upPc' = "raised"
            /\ UNCHANGED << events, startCalls, queue >>
       ELSE IF upload.mimetype \notin allowedMimeTypes
       THEN /\ events' = sendJobUpdateToClient(events, upload.socketId,
                            "translationFailed",
                            [jobId |-> Null, status |-> "failed",
                             reason |-> TooLargeReason])
            /\ upResponse' = UploadRaised(UnsupportedTypeError)
            /\ upPc' = "raised"
            /\ UNCHANGED << startCalls, queue >>
       ELSE IF SizeLimitApplies(upload, upload.isUserPremium)
       THEN /\ events' = sendJobUpdateToClient(events, upload.socketId,
                            "translationFailed",
                            [jobId |-> Null, status |-> "failed",
                             reason |-> TooLargeReason])
            /\ upResponse' = UploadRaised(TooLargeError)
            /\ upPc' = "raised"
            /\ UNCHANGED << startCalls, queue >>
       ELSE /\ startCalls' = Append(startCalls,
                  [originalname |-> upload.originalname,
                   targetLanguage |-> IF upload.targetLanguage = ""
                                      THEN "Vietnamese"
                                      ELSE upload.targetLanguage,
                   socketId |-> upload.socketId,
                   isUserPremium |-> upload.isUserPremium])
            /\ \E added \in BOOLEAN :
                 IF added
                 THEN /\ queue' = QueueAdd(queue, job.id)
                      /\ upResponse' =
                            [kind |-> "returned", message |-> ReceivedMessage,
                             jobId |-> job.id,
                             targetLanguage |-> startCalls'[1].targetLanguage]
                      /\ upPc' = "returned"
                 ELSE /\ upResponse' = UploadRaised(RemoteError.message)
                      /\ upPc' = "raised"
                      /\ UNCHANGED queue
            /\ UNCHANGED events
    /\ UNCHANGED << imgVars, audVars, dlVars, wrapVars, poolVars, asked,
                    statusResp, observed, upload, config, job, doc, remote,
                    pc, fanVars, outputBuffer, files, result, failedStage >>

InitUpload ==
    /\ UploadInit(Uploads, Configs, "start")
    /\ QueueInit({EmptyQueue})
    /\ AudioInit({NoAudio}, "idle")
    /\ DownloadInit({{}})
    /\ ImageInit({NoImage}, "idle")
    /\ OtherIdle
    /\ JobInit(LoadJobs({ << "a" >> \o ExtTxt }), NoDocsFor,
               Remotes({"throw"}, {"none"}))

NextUpload == uploadPdf

\* one upload request, of every kind, under every configuration
SpecUpload == InitUpload /\ [][NextUpload]_vars

\* ---------------------------------------------------------------- wrapText

\* the characters of a text createPdf lays out: a narrow and a wide letter,
\* the space and the line break
WrapChars == { "a", "W", " ", "\n" }

\* the calls of wrapText: a text of up to MaxTextLen characters and the
\* width between the margins
WrapCalls ==
    { [text |-> t, maxWidth |-> w] :
        t \in UNION { [1..n -> WrapChars] : n \in 0..MaxTextLen },
        w \in 1..MaxLineWidth }

\* font.widthOfTextAtSize: the widths of the glyphs added up
GlyphWidth(c) == IF c = "W" THEN 2 ELSE 1
RECURSIVE Width(_)
Width(str) == IF Len(str) = 0 THEN 0 ELSE GlyphWidth(str[1]) + Width(Tail(str))

RECURSIVE ReplaceNewlines(_)
\* text.replace(/\n/g, ' \n ')
ReplaceNewlines(str) ==
    IF Len(str) = 0 THEN << >>
    ELSE IF str[1] = "\n"
         THEN << " ", "\n", " " >> \o ReplaceNewlines(Tail(str))
         ELSE << str[1] >> \o ReplaceNewlines(Tail(str))

\* the words of wrapText
Words(str) == Split(ReplaceNewlines(str), << " " >>)

Newline == << "\n" >>

\* currentLine === '' ? word : currentLine + ' ' + word
LineWithWord(current, word) ==
    IF current = << >> THEN word ELSE current \o << " " >> \o word

\* a line as wide as maxWidth taken to fit
FitsUpTo(lineWidth, maxWidth) == lineWidth <= maxWidth
\* lineWidth < maxWidth
Fits(lineWidth, maxWidth) == lineWidth < maxWidth

\* wrapText is called: the words are split off, no line yet
wrapText ==
    /\ wrapPc = "start"
    /\ wrapWords' = Words(wrapIn.text)
    /\ wrapLines' = << >>
    /\ wrapLine' = << >>
    /\ wrapPc' = "loop"
    /\ UNCHANGED << exceptWrap, wrapIn >>

\* one turn of the loop: a line break closes the line; a word joins the line
\* when the line with it fits, and opens the next line when it does not
wrapWord ==
    /\ wrapPc = "loop"
    /\ wrapWords # << >>
    /\ LET word == Head(wrapWords)
           lineWithWord == LineWithWord(wrapLine, word)
       IN  IF word = Newline
           THEN /\ wrapLines' = Append(wrapLines, wrapLine)
                /\ wrapLine' = << >>
           ELSE IF Fits(Width(lineWithWord), wrapIn.maxWidth)
           THEN /\ wrapLine' = lineWithWord
                /\ UNCHANGED wrapLines
           ELSE /\ wrapLines' = Append(wrapLines, wrapLine)
                /\ wrapLine' = word
    /\ wrapWords' = Tail(wrapWords)
    /\ UNCHANGED << exceptWrap, wrapIn, wrapPc >>

\* after the loop the line in hand is the last line
wrapReturn ==
    /\ wrapPc = "loop"
    /\ wrapWords = << >>
    /\ wrapLines' = Append(wrapLines, wrapLine)
    /\ wrapPc' = "returned"
    /\ UNCHANGED << exceptWrap, wrapIn, wrapWords, wrapLine >>

InitWrap ==
    /\ WrapInit(WrapCalls, "start")
    /\ PoolInit({ << >> })
    /\ AudioInit({NoAudio}, "idle")
    /\ DownloadInit({{}})
    /\ QueueInit({EmptyQueue})
    /\ UploadInit({NoUpload}, {NoConfig}, "idle")
    /\ ImageInit({NoImage}, "idle")
    /\ JobInit(LoadJobs({ << "a" >> \o ExtTxt }), NoDocsFor,
               Remotes({"throw"}, {"none"}))

NextWrap == wrapText \/ wrapWord \/ wrapReturn

\* wrapText on every text and width
SpecWrap == InitWrap /\ [][NextWrap]_vars

\* --------------------------------------------------------- the worker pool

\* the client a job came from: two of the jobs from the same one
SocketOf(id) == IF id = "j2" THEN "sock-2" ELSE "sock-1"

\* the jobs Bull hands to the slots of @Process({concurrency: ...}): text
\* files and presentations, of two contents, no two jobs with the same id
PoolJobs ==
    { [id |-> i, originalname |-> << "a" >> \o e, buffer |-> b,
       socketId |-> SocketOf(i)] :
        i \in JobIds, e \in { ExtTxt, ExtPptx }, b \in { "A", "B" } }

\* a slot: its job, where its handler stands, what it read of the temporary
\* file, its outputBuffer, and what the handler returned or raised
Slot(j) == [job |-> j, pc |-> "start", content |-> "", buffer |-> NoBuffer,
            result |-> Pending]

Pools ==
    { [w \in 1..MaxWorkers |-> Slot(js[w])] :
        js \in { f \in [1..MaxWorkers -> PoolJobs] :
                   \A v, w \in 1..MaxWorkers : v # w => f[v].id # f[w].id } }

\* a temporary file named without the job id
TempFilePathShared(jobId) == << "temp", ".pptx" >>
\* path.join(process.cwd(), `temp-${jobId}.pptx`)
TempFilePath(jobId) == << "temp-", jobId, ".pptx" >>

\* fs.writeFile, fs.unlink and the file of a name, in a directory
WriteIn(d, name, data) ==
    { f \in d : f.name # name } \cup { [name |-> name, data |-> data] }
UnlinkIn(d, name) == { f \in d : f.name # name }
FilesNamed(d, name) == { f \in d : f.name = name }

\* what the writers make of the content they are given
Translated(content, ext) == [format |-> ext, body |-> << "translated", content >>]

\* the catch block of handleTranslation, in a slot
SlotCatch(w, error) ==
    /\ sent' = sendJobUpdateToClient(sent, running[w].job.socketId,
                   "translationFailed",
                   [jobId |-> running[w].job.id, status |-> "failed",
                    reason |-> error.message])
    /\ running' = [running EXCEPT
                     ![w].pc = "failed",
                     ![w].result = [kind |-> "raised",
                                    translatedFileName |-> << >>,
                                    error |-> error]]

\* handleTranslation in a slot, up to its first await: processPptx writes
\* the temporary file; processTxt goes on to translate
slotStarts(w) ==
    /\ running[w].pc = "start"
    /\ IF FileExtensionOf(running[w].job.originalname) = ExtPptx
       THEN /\ tempFiles' = WriteIn(tempFiles,
                                    TempFilePath(running[w].job.id),
                                    running[w].job.buffer)
            /\ running' = [running EXCEPT ![w].pc = "read"]
       ELSE /\ running' = [running EXCEPT
                             ![w].pc = "translate",
                             ![w].content = running[w].job.buffer]
            /\ UNCHANGED tempFiles
    /\ UNCHANGED << exceptPool, outFiles, sent >>

\* processPptx reads the temporary file back and opens it as an archive,
\* which may fail
tempRead(w) ==
    /\ running[w].pc = "read"
    /\ LET found == FilesNamed(tempFiles, TempFilePath(running[w].job.id))
       IN  IF found = {}
           THEN SlotCatch(w, ExtractError)
           ELSE \E f \in found, o \in {"ok", "throw"} :
                  IF o = "throw"
                  THEN SlotCatch(w, ExtractError)
                  ELSE /\ running' = [running EXCEPT ![w].pc = "slides",
                                                     ![w].content = f.data]
                       /\ UNCHANGED sent
    /\ UNCHANGED << exceptPool, tempFiles, outFiles >>

\* the slides settle: a slide part that cannot be read rejects processPptx;
\* otherwise the temporary file is unlinked and the presentation built
slidesSettle(w) ==
    /\ running[w].pc = "slides"
    /\ \E o \in {"ok", "throw"} :
         IF o = "throw"
         THEN /\ SlotCatch(w, SlideReadError)
              /\ UNCHANGED tempFiles
         ELSE /\ tempFiles' = UnlinkIn(tempFiles,
                                       TempFilePath(running[w].job.id))
              /\ running' = [running EXCEPT
                               ![w].pc = "write",
                               ![w].buffer = Translated(running[w].content,
                                                        ExtPptx)]
              /\ UNCHANGED sent
    /\ UNCHANGED << exceptPool, outFiles >>

\* the chunks of a text file settle and createTxt builds the output
textSettled(w) ==
    /\ running[w].pc = "translate"
    /\ running' = [running EXCEPT
                     ![w].pc = "write",
                     ![w].buffer = Translated(running[w].content, ExtTxt)]
    /\ UNCHANGED << exceptPool, tempFiles, outFiles, sent >>

\* the output is written and the client told, or the write fails
slotWrites(w) ==
    /\ running[w].pc = "write"
    /\ \E now \in Timestamps, o \in {"ok", "fail"} :
         LET name == OutputFileName(running[w].job.id, now,
                         FileExtensionOf(running[w].job.originalname))
         IN  IF o = "fail"
             THEN /\ SlotCatch(w, WriteError)
                  /\ UNCHANGED outFiles
             ELSE /\ outFiles' = WriteIn(outFiles, name, running[w].buffer)
                  /\ sent' = sendJobUpdateToClient(sent,
                                 running[w].job.socketId,
                                 "translationComplete",
                                 [jobId |-> running[w].job.id,
                                  status |-> "completed", fileName |-> name])
                  /\ running' = [running EXCEPT
                                   ![w].pc = "completed",
                                   ![w].result = [kind |-> "returned",
                                                  translatedFileName |-> name,
                                                  error |-> NoError]]
    /\ UNCHANGED << exceptPool, tempFiles >>

InitPool ==
    /\ PoolInit(Pools)
    /\ WrapInit({NoWrap}, "idle")
    /\ AudioInit({NoAudio}, "idle")
    /\ DownloadInit({{}})
    /\ QueueInit({EmptyQueue})
    /\ UploadInit({NoUpload}, {NoConfig}, "idle")
    /\ ImageInit({NoImage}, "idle")
    /\ JobInit(LoadJobs({ << "a" >> \o ExtTxt }), NoDocsFor,
               Remotes({"throw"}, {"none"}))

NextPool ==
    \E w \in 1..MaxWorkers :
        \/ slotStarts(w)
        \/ tempRead(w)
        \/ slidesSettle(w)
        \/ textSettled(w)
        \/ slotWrites(w)

\* the handlers of the pool's slots, interleaved at their awaits
SpecPool == InitPool /\ [][NextPool]_vars

\* ------------------------------------------------------------- properties

Last(seq) == seq[Len(seq)]

FailedEvent(reason) ==
    [to |-> job.socketId, event |-> "translationFailed",
     data |-> [jobId |-> job.id, status |-> "failed", reason |-> reason]]

\* the extension of the job's file name, lower-cased
LoweredExtension == ToLowerCase(ExtName(job.originalname))

\* the error each stage raises
StageError(stage) ==
    IF stage = "dispatch"
    THEN [message |-> << "Unsupported file type: " >> \o LoweredExtension]
    ELSE IF stage = "extract" THEN [message |-> << "(extraction failed)" >>]
    ELSE IF stage = "slide" THEN [message |-> << "(slide part unreadable)" >>]
    ELSE IF stage = "create" THEN [message |-> << "(reconstruction failed)" >>]
    ELSE IF stage = "nooutput"
    THEN [message |-> << "No output buffer was generated for " >>
                          \o LoweredExtension \o << "." >>]
    ELSE [message |-> << "(write failed)" >>]

\* the errors a stage may raise: reading a CSV file with no record raises
\* on its own account
StageErrors(stage) ==
    IF stage = "extract" /\ Route(FileExtension) = "csv"
                         /\ KeysRaise(Records(doc))
    THEN {StageError(stage), KeysTypeError}
    ELSE {StageError(stage)}

FailureStages == {"dispatch", "extract", "slide", "create", "nooutput", "write"}

\* C1: whenever a stage of handleTranslation raises, a translationFailed
\* event {jobId, status: 'failed', reason: the error's message} has gone to
\* the job's socket, that same error is raised to the caller, and no result
\* value is returned.
C1_FailureNotifiedAndRethrown ==
    (failedStage # "" \/ pc = "failed" \/ result.kind = "raised") =>
        /\ failedStage \in FailureStages
        /\ pc = "failed"
        /\ result.kind = "raised"
        /\ result.translatedFileName = << >>
        /\ result.error \in StageErrors(failedStage)
        /\ Len(events) >= 1
        /\ Last(events) = FailedEvent(result.error.message)

\* a reconstruction error has reached the catch block
C1_Witness ==
    /\ failedStage = "create"
    /\ result.kind = "raised"
    /\ Len(events) = 1

\* C2: on a successful run the file translated-<jobId>-<timestamp><lower-cased
\* extension> has been written exactly once and whole before the
\* translationComplete event exists, and the event's fileName and the returned
\* translatedFileName are the written file's name.
C2_WrittenOnceThenNotified ==
    (result.kind = "returned"
        \/ \E k \in 1..Len(events) : events[k].event = "translationComplete") =>
        /\ Len(files) = 1
        /\ files[1].whole
        /\ files[1].data = outputBuffer
        /\ \E now \in Timestamps :
             files[1].name = << "translated-", job.id, "-", now >>
                                 \o LoweredExtension
        /\ result.kind = "returned"
        /\ result.translatedFileName = files[1].name
        /\ \A k \in 1..Len(events) :
             events[k].event = "translationComplete" =>
                 events[k].data.fileName = files[1].name

\* a job whose file name has an upper-case extension has completed
C2_Witness ==
    /\ pc = "completed"
    /\ job.originalname = << "a", ".", "T", "X", "T" >>
    /\ Len(files) = 1

\* C3: an invocation emits at most one terminal event, none before it ends:
\* translationComplete exactly when it returns a file name, translationFailed
\* exactly when it raises; so none is reported failed after completed, or
\* completed after failed.
C3_OneTerminalEvent ==
    /\ Len(events) <= 1
    /\ (result.kind = "returned") <=>
           (Len(events) = 1 /\ events[1].event = "translationComplete")
    /\ (result.kind = "raised") <=>
           (Len(events) = 1 /\ events[1].event = "translationFailed")
    /\ result.kind = "returned" => result.translatedFileName # << >>
    /\ result.kind = "pending" <=> pc \notin {"completed", "failed"}

\* a job has failed at the write, after its output was reconstructed
C3_Witness ==
    /\ pc = "failed"
    /\ failedStage = "write"
    /\ outputBuffer # NoBuffer
    /\ Len(events) = 1

UnsupportedName(name) ==
    ToLowerCase(ExtName(name)) \notin
        { << ".", "p", "p", "t", "x" >>, << ".", "x", "l", "s", "x" >>,
          << ".", "x", "l", "s" >>, << ".", "p", "d", "f" >>,
          << ".", "d", "o", "c", "x" >>, << ".", "c", "s", "v" >>,
          << ".", "t", "x", "t" >> }

\* C4: a job whose file name has an unsupported extension, or none, is
\* rejected before any extraction, remote call or file write, with a
\* translationFailed event whose reason contains 'Unsupported file type'.
C4_UnsupportedRejectedFirst ==
    UnsupportedName(job.originalname) =>
        /\ pc \in {"start", "failed"}
        /\ \A u \in Units : unitSt[u] = "idle"
        /\ \A u \in Units : \A i \in 1..Len(call[u]) : call[u][i] = "queued"
        /\ files = << >>
        /\ outputBuffer = NoBuffer
        /\ pc = "failed" =>
             /\ Len(events) = 1
             /\ events[1].event = "translationFailed"
             /\ Head(events[1].data.reason) = "Unsupported file type: "
             /\ result.kind = "raised"

\* a job whose file name has no extension has been rejected
C4_Witness ==
    /\ pc = "failed"
    /\ ExtName(job.originalname) = << >>
    /\ Len(events) = 1

\* C5: at most one file is written per invocation, and only after the
\* reconstruction produced the output bytes: none when the extraction, the
\* translation or the reconstruction failed or produced nothing.
C5_NoFileUnlessReconstructed ==
    /\ Len(files) <= 1
    /\ failedStage \in {"dispatch", "extract", "slide", "translate", "create",
                        "nooutput"} => files = << >>
    /\ Len(files) = 1 =>
         /\ outputBuffer # NoBuffer
         /\ files[1].data = outputBuffer
         /\ \A u \in Units : unitSt[u] = "done"
         /\ pc \in {"notify", "completed", "failed"}
         /\ pc = "failed" => failedStage = "write"

\* the writer produced no bytes and the job failed without a file
C5_Witness ==
    /\ pc = "failed"
    /\ failedStage = "nooutput"
    /\ files = << >>

\* what chunk i of unit u contributes to the output, given how its call
\* settled
ExpectedChunk(u, i) ==
    LET text == doc.units[u][i]
        lang == IF job.targetLanguage = "" THEN "Vietnamese"
                ELSE job.targetLanguage
    IN  IF call[u][i] = "ok" THEN << "[", lang, "]" >> \o text
        ELSE << "[Error translating this chunk: " >>
                 \o SubSeq(text, 1, IF Len(text) < 50 THEN Len(text) ELSE 50)
                 \o << "...]" >>

InFlight(u) == Cardinality({i \in 1..Len(call[u]) : call[u][i] = "inflight"})

TotalInFlight ==
    Cardinality({ p \in UNION { { << u, i >> : i \in 1..Len(call[u]) } :
                                 u \in DOMAIN call } :
                    call[p[1]][p[2]] = "inflight" })

ActiveSlides == Cardinality({u \in DOMAIN unitSt : unitSt[u] = "active"})

\* C7: during one chunkAndTranslateText call at most 10 remote calls are in
\* flight, however many chunks there are: of the calls started, all but 10
\* have settled.
C7_AtMostTenInFlight ==
    \A u \in DOMAIN call :
        /\ InFlight(u) <= 10
        /\ Cardinality({i \in 1..Len(call[u]) : call[u][i] # "queued"})
               <= 10 + Cardinality({i \in 1..Len(call[u]) :
                                       call[u][i] \in {"ok", "throw", "empty"}})

\* the eleventh chunk's call is in flight, one of the first ten having
\* settled, and ten calls are in flight again
C7_Witness ==
    /\ doc.kind = "text"
    /\ Len(call[1]) >= 11
    /\ call[1][11] = "inflight"
    /\ InFlight(1) = 10

RECURSIVE RegionStart(_, _)
\* where the region of chunk i starts in chunkAndTranslateText's result:
\* after the earlier regions and one two-character separator each
RegionStart(u, i) ==
    IF i = 1 THEN 0 ELSE RegionStart(u, i - 1) + Len(ExpectedChunk(u, i - 1)) + 2

\* C8: chunkAndTranslateText returns the per-chunk results (translation or
\* placeholder) in ascending chunk index joined by a blank line, in whatever
\* order the remote calls settled: the i-th region comes from the i-th chunk.
C8_ReassembledInIndexOrder ==
    \A u \in DOMAIN call :
        /\ \A i \in 1..Len(call[u]) :
             call[u][i] \in {"ok", "throw", "empty"} =>
                 translatedChunks[u][i] = ExpectedChunk(u, i)
        /\ (unitSt[u] = "done" /\ doc.kind # "sheet" /\ Len(call[u]) > 0) =>
             LET n == Len(call[u])
             IN  /\ Len(unitOut[u])
                        = RegionStart(u, n) + Len(ExpectedChunk(u, n))
                 /\ \A i \in 1..n :
                      SubSeq(unitOut[u], RegionStart(u, i) + 1,
                             RegionStart(u, i) + Len(ExpectedChunk(u, i)))
                          = ExpectedChunk(u, i)
                 /\ \A i \in 2..n :
                      SubSeq(unitOut[u], RegionStart(u, i) - 1,
                             RegionStart(u, i)) = << "\n", "\n" >>

\* a text of eleven chunks is reassembled, translations and placeholders
\* alternating
C8_Witness ==
    /\ doc.kind = "text"
    /\ Len(call[1]) >= 11
    /\ unitSt[1] = "done"
    /\ call[1][1] = "throw"
    /\ call[1][2] = "ok"
    /\ call[1][11] = "throw"

\* C9 as claimed: the remote calls in flight within a job never exceed 10
\* for text chunks and spreadsheet cells, 5 for a presentation.
C9_InFlightWithinWidth ==
    TotalInFlight <= IF doc.kind = "slides" THEN 5 ELSE 10

\* C9: within a text or spreadsheet job at most 10 remote calls are in
\* flight; within a presentation at most 5 slides are in translation at a
\* time, each with at most 10 calls in flight, so at most 50 calls.
C9_InFlightPerLimiter ==
    /\ doc.kind # "slides" => TotalInFlight <= 10
    /\ doc.kind = "slides" =>
         /\ ActiveSlides <= 5
         /\ \A u \in DOMAIN call : InFlight(u) <= 10
         /\ \A u \in DOMAIN call : InFlight(u) > 0 => unitSt[u] = "active"
         /\ TotalInFlight <= 50

\* a presentation has more than 5 remote calls in flight, its slides being
\* split into several chunks
C9_Witness ==
    /\ doc.kind = "slides"
    /\ TotalInFlight > 5
    /\ ActiveSlides <= 5
    /\ \E u \in DOMAIN call : InFlight(u) >= 2

\* the slides handed to the limiter and not yet translated
PendingSlides == {u \in DOMAIN unitSt : unitSt[u] \in {"queued", "active"}}

\* C10: during processPptx at most 5 slides have a chunkAndTranslateText
\* call in progress, and every slide with non-blank text, once handed to the
\* limiter, is eventually translated: a pending slide stays pending until it
\* is done, and whenever slides are pending a moment comes when none is.
C10_FiveSlidesAtATime ==
    /\ [](ActiveSlides <= 5)
    /\ [][\A u \in PendingSlides : unitSt'[u] \in {"queued", "active", "done"}]_vars
    /\ (PendingSlides # {}) ~> (PendingSlides = {})

\* five slides are in translation and a sixth waits in the limiter's queue
C10_Witness ==
    /\ doc.kind = "slides"
    /\ ActiveSlides = 5
    /\ Len(slideQueue) >= 1
    /\ unitSt[Head(slideQueue)] = "queued"

\* C11: no remote call is retried: a chunk's text is posted to the
\* translation service once when its call starts and never again, whether the
\* call succeeds, throws or answers without content; when
\* chunkAndTranslateText has returned for a text job, the calls it made are
\* as many as its chunks.
C11_NoRetry ==
    /\ \A u \in DOMAIN call : \A i \in 1..Len(call[u]) :
           posts[u][i] = IF call[u][i] = "queued" THEN 0 ELSE 1
    /\ (doc.kind = "text" /\ pc \in {"write", "notify", "completed"}) =>
           SumSeq(posts[1]) = Len(doc.units[1])

\* a text job of two chunks has completed with two calls made, the first of
\* which failed
C11_Witness ==
    /\ doc.kind = "text"
    /\ pc = "completed"
    /\ Len(doc.units[1]) = 2
    /\ call[1][1] \in {"throw", "empty"}
    /\ call[1][2] = "ok"
    /\ posts[1] = << 1, 1 >>

\* the distinct non-blank texts among the cells of the spreadsheet
DistinctNonBlank ==
    { doc.cells[k] : k \in { j \in 1..Len(doc.cells) :
                               \E m \in 1..Len(doc.cells[j]) :
                                   doc.cells[j][m] \notin {" ", "\n", "\t"} } }

\* C12: for a spreadsheet with N distinct non-blank cell texts the
\* translation service is called at most N times, once per distinct text and
\* not once per cell, and exactly N times once the translation is over.
C12_OneCallPerDistinctText ==
    doc.kind = "sheet" =>
        /\ SumSeq(posts[1]) <= Cardinality(DistinctNonBlank)
        /\ pc \in {"write", "notify", "completed"} =>
               SumSeq(posts[1]) = Cardinality(DistinctNonBlank)

\* a spreadsheet whose two cells hold the same text has been translated with
\* one call
C12_Witness ==
    /\ doc.kind = "sheet"
    /\ pc = "completed"
    /\ Len(doc.cells) = 2
    /\ doc.cells[1] = doc.cells[2]
    /\ Cardinality(DistinctNonBlank) = 1
    /\ SumSeq(posts[1]) = 1

\* C13: a spreadsheet without a cell whose text is non-blank after trimming
\* (no cells at all, or blank ones only) costs no translation call, its
\* output is the input bytes as they came, and the early return fails no
\* job: such a job fails only when the workbook cannot be loaded or the
\* output file cannot be written, and otherwise ends completed.
C13_BlankSheetReturnedAsIs ==
    (doc.kind = "sheet" /\ DistinctNonBlank = {}) =>
        /\ SumSeq(posts[1]) = 0
        /\ \A i \in 1..Len(call[1]) : call[1][i] = "queued"
        /\ pc \in {"write", "notify", "completed"} =>
               outputBuffer = [format |-> "input", body |-> doc.cells]
        /\ \A k \in 1..Len(files) :
               files[k].data = [format |-> "input", body |-> doc.cells]
        /\ failedStage \in {"", "extract", "write"}
        /\ pc \notin {"translating"}

\* a spreadsheet of blank cells has completed, its file holding the input
C13_Witness ==
    /\ doc.kind = "sheet"
    /\ Len(doc.cells) >= 1
    /\ DistinctNonBlank = {}
    /\ pc = "completed"
    /\ Len(files) = 1
    /\ result.kind = "returned"

\* the slide parts among the entries of the archive
SlideEntries ==
    { k \in 1..Len(doc.archive) :
        LET f == doc.archive[k].path
        IN  /\ Len(f) >= 3
            /\ f[1] = "ppt/slides/slide"
            /\ f[Len(f)] = ".xml"
            /\ \A j \in 2..(Len(f) - 1) :
                   f[j] \in {"0", "1", "2", "3", "4", "5", "6", "7", "8", "9"} }

\* the number in the name of the slide part at entry k
EntryNumber(k) ==
    LET f == doc.archive[k].path
    IN  ParseInt(SubSeq(f, 2, Len(f) - 1))

\* the entry of the slide part whose number is the r-th smallest
EntryOfRank(r) ==
    CHOOSE k \in SlideEntries :
        Cardinality({j \in SlideEntries : EntryNumber(j) < EntryNumber(k)})
            = r - 1

\* C14: the presentation reconstructed from an archive with K slide parts
\* has K slides, a single note slide when K = 0, and its k-th slide is made
\* from the part whose number is the k-th smallest, whatever the order in
\* which the archive lists the parts and the translations complete.
C14_SlidesInNumericOrder ==
    (doc.kind = "slides" /\ pc = "write") =>
        LET K == Cardinality(SlideEntries)
            body == outputBuffer.body
        IN  /\ outputBuffer.format = "pptx"
            /\ K = 0 =>
                 body = << [text |-> << "No content translated." >>,
                            label |-> 0] >>
            /\ K > 0 =>
                 /\ Len(body) = K
                 /\ \A k \in 1..K :
                      /\ body[k].label = k
                      /\ IF doc.archive[EntryOfRank(k)].chunks = 0
                         THEN body[k].text = << "(Empty Slide)" >>
                         ELSE \E j \in 1..Len(body[k].text) :
                                  body[k].text[j]
                                      = UnitGlyphs[EntryNumber(EntryOfRank(k))]
                 /\ \A k \in 1..(K - 1) :
                      EntryNumber(EntryOfRank(k)) < EntryNumber(EntryOfRank(k + 1))

\* the archive lists slide3, slide1, slide2, all with text, and the
\* presentation is reconstructed
C14_Witness ==
    /\ doc.kind = "slides"
    /\ pc = "write"
    /\ Len(doc.archive) = 3
    /\ doc.archive[1].path = << "ppt/slides/slide", "3", ".xml" >>
    /\ doc.archive[2].path = << "ppt/slides/slide", "1", ".xml" >>
    /\ doc.archive[3].path = << "ppt/slides/slide", "2", ".xml" >>
    /\ \A k \in 1..3 : doc.archive[k].chunks = 1
    /\ Len(outputBuffer.body) = 3

\* no slide of the presentation has text
NoSlideText == \A k \in SlideEntries : doc.archive[k].chunks = 0

\* C15 as claimed: when none of the slides had non-blank text the
\* reconstructed presentation consists of a single slide.
C15_BlankDeckSingleSlide ==
    (doc.kind = "slides" /\ pc = "write" /\ NoSlideText) =>
        Len(outputBuffer.body) = 1

\* C15: a presentation without slide parts is reconstructed as a single
\* note slide 'No content translated.'; one with K >= 1 slide parts none of
\* which has text is reconstructed with K slides, each showing
\* '(Empty Slide)' and its position, and costs no translation call.
C15_BlankDeckKeepsSlides ==
    (doc.kind = "slides" /\ NoSlideText) =>
        /\ \A u \in DOMAIN posts : SumSeq(posts[u]) = 0
        /\ pc = "write" =>
             LET K == Cardinality(SlideEntries)
             IN  IF K = 0
                 THEN outputBuffer.body
                          = << [text |-> << "No content translated." >>,
                                label |-> 0] >>
                 ELSE outputBuffer.body
                          = [k \in 1..K |-> [text |-> << "(Empty Slide)" >>,
                                              label |-> k]]

\* a presentation of two slides without text is reconstructed with two
\* slides
C15_Witness ==
    /\ doc.kind = "slides"
    /\ pc = "write"
    /\ NoSlideText
    /\ Cardinality(SlideEntries) = 2
    /\ Len(outputBuffer.body) = 2

\* C16 as claimed: a CSV file of H columns and R >= 1 rows, translated by a
\* service that returns every input unchanged, is reconstructed with the
\* same H column keys and the same R records, values and order kept.
C16_CsvRoundTrip ==
    (pc = "write" /\ LoweredExtension = << ".", "c", "s", "v" >>) =>
        /\ outputBuffer.body.headers = doc.table.header
        /\ Len(outputBuffer.body.rows) = Len(doc.table.rows)
        /\ outputBuffer.body.rows = doc.table.rows

\* C17: when the OCR call succeeds without text detections,
\* translateImageDirect returns {segments: []} at once: no call to the
\* translation service, no vision fallback, no error.
C17_NoDetectionsNoCalls ==
    (image.ocr = "ok" /\ image.detections <= 0) =>
        /\ apiCalls = << >>
        /\ imgPc \in {"start", "returned"}
        /\ imgPc = "returned" =>
             /\ imgResult.kind = "returned"
             /\ imgResult.value = [segments |-> << >>]

\* an image without detections has been answered
C17_Witness ==
    /\ image.ocr = "ok"
    /\ image.detections = 0
    /\ imgPc = "returned"
    /\ imgResult.value.segments = << >>

RECURSIVE NonBlankTexts(_)
\* the texts of the paragraphs that are not blank, in the order reported
NonBlankTexts(ps) ==
    IF Len(ps) = 0 THEN << >>
    ELSE LET t == Join(ps[1], << " " >>)
         IN  IF \E k \in 1..Len(t) : t[k] \notin {" ", "\n", "\t"}
             THEN << t >> \o NonBlankTexts(Tail(ps))
             ELSE NonBlankTexts(Tail(ps))

\* the OCR call gave P >= 1 non-blank paragraphs and the batch call was
\* answered with a content that is not blank
BatchAnswered ==
    /\ image.ocr = "ok"
    /\ image.detections > 0
    /\ Len(NonBlankTexts(image.paragraphs)) >= 1
    /\ replies.batch.kind = "content"
    /\ \E k \in 1..Len(replies.batch.content) :
           replies.batch.content[k] \notin {" ", "\n", "\t"}

\* one call, no fallback, and the segments in the order of detection, the
\* i-th with the i-th of the given lines, trimmed, or with none
SegmentsCarry(lines) ==
    LET texts == NonBlankTexts(image.paragraphs)
    IN  /\ apiCalls = << "batch" >>
        /\ imgPc = "returned"
        /\ imgResult.kind = "returned"
        /\ Len(imgResult.value.segments) = Len(texts)
        /\ \A i \in 1..Len(texts) :
             /\ imgResult.value.segments[i].original = texts[i]
             /\ imgResult.value.segments[i].translated
                    = IF i <= Len(lines) THEN Trim(lines[i]) ELSE << >>

\* C18 as claimed: with P non-blank paragraphs and a non-empty batch
\* response of L lines, one translation call is made and none to the
\* fallback, and segment i carries the trimmed i-th line of the response for
\* i < min(P, L), an empty translation from L on.
C18_LinesOfResponse ==
    BatchAnswered => SegmentsCarry(Split(replies.batch.content, << "\n" >>))

\* C18: with P non-blank paragraphs and a batch response that is not blank,
\* one translation call is made and none to the fallback, and segment i
\* carries the trimmed i-th line of the response as trimmed of its leading
\* and trailing white space, for i < min(P, L), L the number of those lines,
\* and an empty translation from L on; lines beyond the P-th are ignored.
C18_LinesOfTrimmedResponse ==
    BatchAnswered =>
        SegmentsCarry(Split(Trim(replies.batch.content), << "\n" >>))

\* three paragraphs were answered with two lines that needed trimming: the
\* third segment keeps its empty translation
C18_Witness ==
    /\ BatchAnswered
    /\ Len(imgResult.value.segments) = 3
    /\ replies.batch.content = << " ", "u", " ", "\n", " ", "v", "\n" >>
    /\ imgResult.value.segments[1].translated = << "u" >>
    /\ imgResult.value.segments[2].translated = << "v" >>
    /\ imgResult.value.segments[3].translated = << >>

\* the vision answers that hold the JSON object with one segment, bare or
\* in a markdown fence
FencedOrBare ==
    { << "{segments:[F]}" >>,
      << "<fence>json", "\n", "{segments:[F]}", "\n", "<fence>" >>,
      << "<fence>json", "{segments:[F]}", "<fence>" >> }

\* C19: when the OCR call raises, one call goes to the vision model and
\* none to the batch translation, and the object parsed from the answer,
\* markdown fence stripped, is what translateImageDirect returns, its
\* segments as the vision model gave them.
C19_OcrFailureFallsBack ==
    image.ocr = "throw" =>
        /\ imgPc # "start" => apiCalls = << "vision" >>
        /\ imgPc # "batch"
        /\ replies.batch.kind = "none"
        /\ (replies.vision.kind = "content"
               /\ replies.vision.content \in FencedOrBare) =>
             /\ imgPc = "returned"
             /\ imgResult.kind = "returned"
             /\ imgResult.value
                    = [segments |-> << [original |-> << "F" >>,
                                        translated |-> << "G" >>] >>]
        /\ imgPc = "returned" =>
             \/ replies.vision.content \in FencedOrBare
             \/ /\ replies.vision.content = << "{segments:[]}" >>
                /\ imgResult.value = [segments |-> << >>]

\* the OCR call raised and the vision model's fenced answer was returned
C19_Witness ==
    /\ image.ocr = "throw"
    /\ imgPc = "returned"
    /\ replies.vision.content
           = << "<fence>json", "\n", "{segments:[F]}", "\n", "<fence>" >>
    /\ Len(imgResult.value.segments) = 1

\* the OCR call gave segments and the batch call was answered with an empty
\* or blank content
BatchBlank ==
    /\ image.ocr = "ok"
    /\ image.detections > 0
    /\ Len(NonBlankTexts(image.paragraphs)) >= 1
    /\ replies.batch.kind = "content"
    /\ \A k \in 1..Len(replies.batch.content) :
           replies.batch.content[k] \in {" ", "\n", "\t"}

\* C20: when the OCR call gave segments and the batch response is empty or
\* blank, the fallback is called once, after the batch call, so two calls
\* are made in all, and what is returned are the fallback's segments, not
\* those of the OCR.
C20_BlankBatchFallsBack ==
    BatchBlank =>
        /\ apiCalls = << "batch", "vision" >>
        /\ imgPc \in {"vision", "returned", "raised"}
        /\ imgPc = "returned" =>
             /\ imgResult.value.segments
                   \in { << >>, << [original |-> << "F" >>,
                                    translated |-> << "G" >>] >> }
             /\ \A i \in 1..Len(imgResult.value.segments) :
                   imgResult.value.segments[i].original
                       # NonBlankTexts(image.paragraphs)[i]
             /\ replies.vision.kind = "content"

\* a blank batch response was followed by the fallback, whose segment was
\* returned
C20_Witness ==
    /\ BatchBlank
    /\ replies.batch.content = << " ", "\n", " " >>
    /\ imgPc = "returned"
    /\ apiCalls = << "batch", "vision" >>
    /\ imgResult.value.segments
           = << [original |-> << "F" >>, translated |-> << "G" >>] >>

\* the vision answers that cannot be used: no content, a blank one, text
\* that is not JSON, bare or in a markdown fence, and an object without
\* segments
UnusableVisionContents ==
    { << " " >>,
      << "Here", " ", "{segments:[F]}" >>,
      << "<fence>json", "\n", "Sorry", "\n", "<fence>" >>,
      << "{text:F}" >> }

\* the fallback's call raised or was answered with something unusable
VisionFailed ==
    \/ replies.vision.kind \in {"throw", "missing"}
    \/ /\ replies.vision.kind = "content"
       /\ replies.vision.content \in UnusableVisionContents

\* C21: when the vision fallback's call raises, or its content is empty, is
\* not JSON once the markdown fence is stripped, or is an object without a
\* segments array, translateImageDirect raises: the vision call was made
\* once and was the last call, and no segments are returned, not even those
\* the OCR had found.
C21_FallbackFailureFatal ==
    /\ VisionFailed =>
         /\ imgPc = "raised"
         /\ imgResult.kind = "raised"
         /\ imgResult.value = [segments |-> << >>]
         /\ imgResult.error.message # << >>
         /\ (replies.vision.kind = "throw")
              = (imgResult.error.message = << "(request failed)" >>)
         /\ Len(apiCalls) \in {1, 2}
         /\ apiCalls[Len(apiCalls)] = "vision"
         /\ Cardinality({k \in DOMAIN apiCalls : apiCalls[k] = "vision"}) = 1
    /\ imgPc = "raised" => (VisionFailed \/ replies.vision.kind = "parts")

\* the OCR had found segments, the batch call failed, and the fallback's
\* fenced answer was not JSON: the request raised and returned none of them
C21_Witness ==
    /\ imgPc = "raised"
    /\ Len(segments) >= 1
    /\ apiCalls = << "batch", "vision" >>
    /\ replies.vision.content
           = << "<fence>json", "\n", "Sorry", "\n", "<fence>" >>
    /\ imgResult.error.message = << "Failed to parse AI response as JSON: " >>

RECURSIVE SpokenTexts(_)
\* the transcripts that are defined and not the empty string, in order
SpokenTexts(rs) ==
    IF Len(rs) = 0 THEN << >>
    ELSE IF rs[1].defined /\ Len(rs[1].text) > 0
         THEN << rs[1].text >> \o SpokenTexts(Tail(rs))
         ELSE SpokenTexts(Tail(rs))

RECURSIVE JoinedByNewline(_)
\* texts with a line break between one and the next
JoinedByNewline(ts) ==
    IF Len(ts) = 0 THEN << >>
    ELSE IF Len(ts) = 1 THEN ts[1]
    ELSE ts[1] \o << "\n" >> \o JoinedByNewline(Tail(ts))

\* C22: when the speech service returns no results, or only transcripts
\* that are undefined or empty, translateAudioDirect returns, without an
\* error, success false with the no-speech message and empty texts, and
\* translateTextDirect is never called; when it returns a transcript,
\* translateTextDirect is called exactly once, with the transcripts joined
\* by line breaks.
C22_NoSpeechNoCall ==
    (audio.recognize = "ok" /\ audPc # "start") =>
        IF SpokenTexts(audio.results) = << >>
        THEN /\ audCalls = << >>
             /\ audPc = "returned"
             /\ audResult.kind = "returned"
             /\ audResult.value
                    = [success |-> FALSE,
                       message |-> << "No speech detected in the audio file" >>,
                       originalText |-> << >>, translatedText |-> << >>]
        ELSE /\ audCalls = << JoinedByNewline(SpokenTexts(audio.results)) >>
             /\ audPc = "returned" =>
                  /\ audResult.value.success
                  /\ audResult.value.originalText = audCalls[1]

\* three results of which two had no transcript: nothing was translated
C22_Witness ==
    /\ audio.recognize = "ok"
    /\ Len(audio.results) = 3
    /\ audio.results[1].text = << >>
    /\ audio.results[2].text = << >>
    /\ audio.results[1].defined # audio.results[2].defined
    /\ audio.results[3].text = << >>
    /\ audPc = "returned"
    /\ audCalls = << >>
    /\ ~audResult.value.success

\* three results of which the second was empty: the other two were
\* translated in one call
C22_WitnessSpoken ==
    /\ Len(audio.results) = 3
    /\ audPc = "returned"
    /\ audCalls = << << "H", "i", "\n", "H", "i" >> >>
    /\ audResult.value.translatedText = << "X", "i", "n" >>

\* the extensions downloadFile serves
ServedExtensions ==
    { << ".", "p", "d", "f" >>, << ".", "d", "o", "c", "x" >>,
      << ".", "x", "l", "s", "x" >>, << ".", "c", "s", "v" >>,
      << ".", "t", "x", "t" >>, << ".", "p", "p", "t", "x" >> }

\* the name is empty or holds two dots in a row
Traversing(n) ==
    Len(n) = 0 \/ \E k \in 1..(Len(n) - 1) : n[k] = "." /\ n[k + 1] = "."

\* the extension of the name, lowered, is not one downloadFile serves
UnservedExtension(n) ==
    \A e \in ServedExtensions :
        \/ Len(n) <= Len(e)
        \/ \E k \in 1..Len(e) :
              LowerChar(n[Len(n) - Len(e) + k]) # e[k]

\* a rejected request streams nothing and deletes nothing
RejectedLeavesFiles ==
    dlResponse'.status # 200 =>
        /\ dir' = dir
        /\ open' = open
        /\ startedNames' = startedNames

\* C23 as claimed: an empty name or one containing '..' is rejected with
\* 'Invalid filename.' before the file system is touched, a name whose
\* extension is not served is rejected with 'Unsupported file type for
\* download.', and a rejected request streams nothing and deletes nothing.
C23_RejectedByNameAndType ==
    [][served' # served =>
         /\ Traversing(dlResponse'.name) =>
              /\ dlResponse'.message = << "Invalid filename." >>
              /\ ~dlResponse'.stat
         /\ (~Traversing(dlResponse'.name)
                /\ UnservedExtension(dlResponse'.name)) =>
              dlResponse'.message = << "Unsupported file type for download." >>
         /\ RejectedLeavesFiles]_vars

\* C23: an empty name or one containing '..' is rejected with 'Invalid
\* filename.' before the file system is touched; any other name whose
\* extension is not served is rejected, with 'Unsupported file type for
\* download.' when a file of that name is in the output directory and with
\* 'File not found.' when none is; a rejected request streams nothing and
\* deletes nothing.
C23_RejectedByNameThenFileThenType ==
    [][served' # served =>
         /\ Traversing(dlResponse'.name) =>
              /\ dlResponse'.message = << "Invalid filename." >>
              /\ ~dlResponse'.stat
         /\ (~Traversing(dlResponse'.name)
                /\ UnservedExtension(dlResponse'.name)) =>
              /\ dlResponse'.status # 200
              /\ dlResponse'.message
                    = IF dlResponse'.name \in dir
                      THEN << "Unsupported file type for download." >>
                      ELSE << "File not found." >>
         /\ RejectedLeavesFiles]_vars

\* the spreadsheet the worker wrote under .xls is in the directory and its
\* download was refused for its type, the file kept
C23_Witness ==
    /\ dlResponse.name = << "translated-", "2", "-", "7", ".", "x", "l", "s" >>
    /\ dlResponse.name \in dir
    /\ dlResponse.message = << "Unsupported file type for download." >>
    /\ dlResponse.stat

C25_StatusOfJobState ==
    asked > 0 =>
        LET j == queue[statusResp.jobId]
        IN  /\ statusResp.status
                  \in {"not_found", "completed", "failed", "processing"}
            /\ (statusResp.status = "not_found") = ~j.exists
            /\ (statusResp.status = "completed") = (j.exists /\ j.isCompleted)
            /\ (statusResp.status = "failed")
                  = (j.exists /\ ~j.isCompleted /\ j.isFailed)
            /\ statusResp.status = "completed" =>
                  /\ statusResp.result = j.returnvalue
                  /\ statusResp.reason = << >>
            /\ statusResp.status = "failed" =>
                  /\ statusResp.reason = j.failedReason
                  /\ statusResp.result = << >>
            /\ statusResp.status \in {"not_found", "processing"} =>
                  /\ statusResp.result = << >>
                  /\ statusResp.reason = << >>

\* a job flagged completed and failed at once was reported completed
C25_Witness ==
    /\ asked > 0
    /\ queue[statusResp.jobId].isCompleted
    /\ queue[statusResp.jobId].isFailed
    /\ statusResp.status = "completed"
    /\ statusResp.result = << "translated-1-7.txt" >>

\* the worker has finished the enqueued job and Bull has taken note
JobFinished ==
    /\ pc \in {"completed", "failed"}
    /\ ~(queue[job.id].exists /\ queue[job.id].isActive)

\* no status answered for a job comes after completed or failed unless it
\* is completed or failed too
NeverBackToProcessing ==
    \A id \in JobIds : \A k \in 1..(Len(observed[id]) - 1) :
        observed[id][k] \in {"completed", "failed"} =>
            observed[id][k + 1] \in {"completed", "failed"}

\* C26: for a job enqueued by startTranslationJob, a status request made
\* after the worker finished it successfully answers completed with the
\* result file name, one made after the worker failed it answers failed
\* with the reason, and the status answered for a job never goes from
\* completed or failed back to processing or not_found.
C26_FinishedJobReported ==
    [][/\ (asked' # asked /\ statusResp'.jobId = job.id /\ JobFinished) =>
            IF result.kind = "returned"
            THEN /\ statusResp'.status = "completed"
                 /\ statusResp'.result = result.translatedFileName
            ELSE /\ statusResp'.status = "failed"
                 /\ statusResp'.reason = result.error.message
       /\ NeverBackToProcessing']_vars

\* the types uploadPdf lets through
AllowedTypes ==
    { "application/pdf", "text/plain",
      "application/vnd.openxmlformats-officedocument.wordprocessingml.document",
      "application/vnd.openxmlformats-officedocument.spreadsheetml.sheet",
      "application/vnd.openxmlformats-officedocument.presentationml.presentation" }

\* the size limit of the configuration holds for this upload
OverLimit ==
    /\ config.enabled = "true"
    /\ ~upload.isUserPremium
    /\ upload.size > 1024 * (IF config.limitKb = 0 THEN 10 ELSE config.limitKb)

\* the one event of a rejection: translationFailed, without job id, to the
\* socket of the request
RejectionEvent(e) ==
    /\ e.to = upload.socketId
    /\ e.event = "translationFailed"
    /\ e.data.jobId = "null"
    /\ e.data.status = "failed"

\* C27: uploadPdf calls startTranslationJob, once, only when the socket id
\* is set, the file's type is allowed and the size limit does not apply
\* (limit disabled, user premium, or size not above the limit); a rejected
\* upload enqueues no job, and one rejected for its type or size has emitted
\* translationFailed with jobId null and status failed to the socket when
\* the error is raised.
C27_EnqueuedOnlyWhenAccepted ==
    /\ Len(startCalls) <= 1
    /\ upPc \in {"returned", "raised"} =>
         LET accepted == /\ upload.present
                         /\ upload.socketId # ""
                         /\ upload.mimetype \in AllowedTypes
                         /\ ~OverLimit
         IN  /\ (Len(startCalls) = 1) = accepted
             /\ ~accepted =>
                  /\ upPc = "raised"
                  /\ \A id \in JobIds : ~queue[id].exists
             /\ upPc = "returned" => queue[upResponse.jobId].exists
             /\ (upload.present /\ upload.socketId # "" /\ ~accepted) =>
                  /\ Len(events) = 1
                  /\ RejectionEvent(events[1])
             /\ (accepted \/ upload.socketId = "" \/ ~upload.present) =>
                  events = << >>

\* a free user's file one byte above the configured limit was refused and
\* the socket told; nothing was enqueued
C27_Witness ==
    /\ upPc = "raised"
    /\ config = [enabled |-> "true", limitKb |-> 2]
    /\ upload.size = 2049
    /\ upload.mimetype = "application/pdf"
    /\ ~upload.isUserPremium
    /\ Len(events) = 1
    /\ startCalls = << >>

\* the calls of translateChunk that have returned
Returned(u, i) == call[u][i] \notin {"queued", "inflight"}

RECURSIVE RunsText(_)
\* the texts of the runs of a rich text, one after the other
RunsText(runs) ==
    IF Len(runs) = 0 THEN << >> ELSE runs[1].text \o RunsText(Tail(runs))

\* the text a cell value reads as
ReadsAs(v) ==
    IF v.type = "richText" THEN RunsText(v.richText)
    ELSE IF v.type \in {"string", "number"} THEN v.text
    ELSE << >>

\* the text is not blank
HasText(t) == \E m \in 1..Len(t) : t[m] \notin {" ", "\n", "\t"}

\* what the translation of a text may be: the service's answer, or the
\* placeholder
TranslationsOf(t) ==
    { << "[", "Vietnamese", "]" >> \o t,
      << "[Error translating this chunk: " >> \o t \o << "...]" >> }

\* the text a written cell holds: the one run's, or the string's
Holds(o) ==
    IF o.type = "richText" THEN o.richText[1].text ELSE o.text

\* C29: once processAndCreateXlsx has written a workbook with at least one
\* non-blank cell text, every cell whose text was non-blank holds the one
\* translation of that text, the same in every cell of the same text; a
\* rich-text cell holds exactly one run, with the font of its first run and
\* that translation; a cell whose text is blank, or whose value is neither
\* string nor number nor rich text, holds what it held.
C29_CellsHoldTheirTranslation ==
    (doc.kind = "sheet" /\ outputBuffer.format = "xlsx") =>
        /\ Len(outputBuffer.body) = Len(doc.values)
        /\ \A k \in 1..Len(doc.values) :
             LET v == doc.values[k]
                 o == outputBuffer.body[k]
             IN  IF HasText(ReadsAs(v))
                 THEN /\ Holds(o) \in TranslationsOf(ReadsAs(v))
                      /\ \A j \in 1..Len(doc.values) :
                           ReadsAs(doc.values[j]) = ReadsAs(v) =>
                               Holds(outputBuffer.body[j]) = Holds(o)
                      /\ IF v.type = "richText"
                         THEN /\ o.type = "richText"
                              /\ Len(o.richText) = 1
                              /\ o.richText[1].font = v.richText[1].font
                         ELSE o = [type |-> "string", text |-> Holds(o),
                                   richText |-> << >>]
                 ELSE o = v

\* a plain cell and a two-run rich-text cell of the same text were written:
\* both hold the same translation, the rich text in one run of its first font
C29_Witness ==
    /\ doc.kind = "sheet"
    /\ outputBuffer.format = "xlsx"
    /\ Len(doc.values) = 2
    /\ doc.values[1].type = "string"
    /\ doc.values[2].type = "richText"
    /\ Len(doc.values[2].richText) = 2
    /\ doc.values[1].text = << "y", "z" >>
    /\ outputBuffer.body[2].richText
          = << [font |-> "bold", text |-> << "[", "Vietnamese", "]", "y", "z" >>] >>
    /\ outputBuffer.body[1].text = << "[", "Vietnamese", "]", "y", "z" >>

\* the segments the OCR path has built
OcrSegments ==
    IF imgPc = "returned" /\ apiCalls \in {<< >>, << "batch" >>}
    THEN imgResult.value.segments
    ELSE segments

\* C30: every segment of the OCR path has x, y, width and height between 0
\* and 100, whatever the OCR result, also when the words of a paragraph
\* carry no vertices and when the result has no page dimensions.
C30_PositionsArePercentages ==
    \A i \in 1..Len(OcrSegments) :
        /\ OcrSegments[i].position.x \in 0..100
        /\ OcrSegments[i].position.y \in 0..100
        /\ OcrSegments[i].position.width \in 0..100
        /\ OcrSegments[i].position.height \in 0..100

\* the line wrapText holds and the word it takes next
WordTaken == Head(wrapWords)
LineTaken ==
    IF wrapLine = << >> THEN WordTaken ELSE wrapLine \o << " " >> \o WordTaken

\* the lines wrapText has produced, the one in hand included
ProducedLines ==
    { wrapLines[i] : i \in 1..Len(wrapLines) }
        \cup (IF wrapPc = "loop" THEN { wrapLine } ELSE {})

SeveralWords(line) == \E k \in 1..Len(line) : line[k] = " "

LineBreaks(str) == Cardinality({ k \in 1..Len(str) : str[k] = "\n" })

\* a turn of the loop on a word: the word joins the line exactly when the
\* line with it is narrower than maxWidth, and opens a new line otherwise
WordPacked ==
    (wrapPc = "loop" /\ wrapWords # << >> /\ WordTaken # << "\n" >>) =>
        IF Width(LineTaken) < wrapIn.maxWidth
        THEN wrapLine' = LineTaken /\ wrapLines' = wrapLines
        ELSE wrapLine' = WordTaken /\ Len(wrapLines') = Len(wrapLines) + 1
             /\ wrapLines'[Len(wrapLines')] = wrapLine

\* a turn of the loop on a line break: the line ends, whatever its width
BreakEndsLine ==
    (wrapPc = "loop" /\ wrapWords # << >> /\ WordTaken = << "\n" >>) =>
        /\ Len(wrapLines') = Len(wrapLines) + 1
        /\ wrapLines'[Len(wrapLines')] = wrapLine
        /\ wrapLine' = << >>

\* C31: wrapText packs greedily: a word is appended to the current line
\* exactly when the width of the line with that word is strictly under
\* maxWidth and otherwise starts a new line; every line of more than one word
\* is narrower than maxWidth; every line break of the text ends the current
\* line whatever its width, so the result has a line more than the text has
\* line breaks, at the least.
C31_GreedyWrap ==
    /\ [](\A line \in ProducedLines :
              SeveralWords(line) => Width(line) < wrapIn.maxWidth)
    /\ [](wrapPc = "returned" =>
              Len(wrapLines) >= LineBreaks(wrapIn.text) + 1)
    /\ [][WordPacked /\ BreakEndsLine]_vars

\* a text whose second word does not fit and whose line break ends a line
\* narrower than maxWidth has been wrapped
C31_Witness ==
    /\ wrapPc = "returned"
    /\ wrapIn = [text |-> << "a", " ", "W", "W", "\n" >>, maxWidth |-> 4]
    /\ wrapLines = << << "a" >>, << "W", "W" >>, << >> >>

\* C32: when the vision call is answered with a content that is an array
\* of parts, the text of the first part is taken as the content: a first
\* part holding the JSON of one segment gives that segment as the result.
C32_FirstPartUsed ==
    (imgPc \in {"returned", "raised"} /\ replies.vision.kind = "parts") =>
        /\ imgResult.kind = "returned"
        /\ imgResult.value =
               JsonParse(Trim(StripFences(Trim(replies.vision.content)))).value

\* what the slot's job gives when it runs alone: the bytes of its file
\* translated
AloneBuffer(w) ==
    [format |-> ToLowerCase(ExtName(running[w].job.originalname)),
     body |-> << "translated", running[w].job.buffer >>]

\* the notifications about the slot's job
SentAbout(w) ==
    SelectSeq(sent, LAMBDA e : e.data.jobId = running[w].job.id)

\* the files whose names carry the id of the slot's job
FilesOf(w) ==
    { f \in outFiles : f.name[2] = running[w].job.id }
TempsOf(w) ==
    { f \in tempFiles : f.name = << "temp-", running[w].job.id, ".pptx" >> }

\* C33: jobs running in the slots of the pool at the same time are
\* isolated: a slot reads back only the bytes of its own job; every
\* temporary file and every output file is the file of one slot and holds
\* what that slot's job gives alone; and a finished slot has sent exactly
\* one notification about its job, to its socket, that agrees with its
\* result.
C33_JobsIsolated ==
    /\ \A f \in tempFiles : \E w \in 1..MaxWorkers : f \in TempsOf(w)
    /\ \A f \in outFiles : \E w \in 1..MaxWorkers : f \in FilesOf(w)
    /\ \A w \in 1..MaxWorkers :
         /\ running[w].content \in { "", running[w].job.buffer }
         /\ \A f \in TempsOf(w) : f.data = running[w].job.buffer
         /\ \A f \in FilesOf(w) : f.data = AloneBuffer(w)
         /\ running[w].pc \notin {"completed", "failed"} =>
              /\ SentAbout(w) = << >>
              /\ FilesOf(w) = {}
         /\ running[w].pc = "completed" =>
              /\ FilesOf(w)
                   = { [name |-> running[w].result.translatedFileName,
                        data |-> AloneBuffer(w)] }
              /\ SentAbout(w)
                   = << [to |-> running[w].job.socketId,
                         event |-> "translationComplete",
                         data |-> [jobId |-> running[w].job.id,
                                   status |-> "completed",
                                   fileName
                                      |-> running[w].result.translatedFileName]] >>
         /\ running[w].pc = "failed" =>
              /\ FilesOf(w) = {}
              /\ SentAbout(w)
                   = << [to |-> running[w].job.socketId,
                         event |-> "translationFailed",
                         data |-> [jobId |-> running[w].job.id,
                                   status |-> "failed",
                                   reason
                                      |-> running[w].result.error.message]] >>

\* two presentations of different bytes from the same client: the first is
\* written out while the second, read back from its temporary file, is
\* still at its slides
C33_Witness ==
    /\ running[1].pc = "completed"
    /\ running[2].pc = "slides"
    /\ running[1].job.originalname = << "a", ".", "p", "p", "t", "x" >>
    /\ running[2].job.originalname = << "a", ".", "p", "p", "t", "x" >>
    /\ running[1].job.buffer = "A"
    /\ running[2].job.buffer = "B"
    /\ running[1].job.socketId = running[2].job.socketId
    /\ running[2].content = "B"
    /\ Cardinality(outFiles) = 1

\* C36: processPptx removes the temporary file it creates on every exit
\* path: once it has returned or raised, no file temp-<jobId>.pptx of that
\* job is left.
C36_TempFileRemoved ==
    \A w \in 1..MaxWorkers :
        running[w].pc \in {"write", "completed", "failed"} =>
            ~ \E f \in tempFiles :
                  f.name = << "temp-", running[w].job.id, ".pptx" >>

Terminal == pc \in {"completed", "failed"}

\* a remote call of the job has not settled
CallUnsettled == \E u \in Units : \E i \in 1..Len(call[u]) : call[u][i] = "inflight"

\* no call holds a slot of a chunk limiter, and no unit holds or waits for
\* a slot of the slide limiter or has calls waiting
SlotsReleased ==
    /\ ~CallUnsettled
    /\ \A u \in Units : unitSt[u] \notin {"queued", "active"}
    /\ slideQueue = << >>

\* C34 as stated: when every remote call settles the job ends, completed or
\* failed, with the slots of its limiters released, and a job with a call
\* that has not settled has not ended.
C34_StuckCallStallsJob ==
    /\ <>[](Terminal /\ SlotsReleased)
    /\ [](CallUnsettled => ~Terminal)

\* C34, amended: when every remote call settles the job ends, completed or
\* failed, with the slots of its limiters released; a job with a call that
\* has not settled has not ended, unless it is a presentation that failed
\* because a slide part could not be read.
C34_StuckCallStallsUnlessSlideFails ==
    /\ <>[](Terminal /\ SlotsReleased)
    /\ [](CallUnsettled =>
             \/ ~Terminal
             \/ /\ pc = "failed"
                /\ doc.kind = "slides"
                /\ result.error.message = << "(slide part unreadable)" >>)

\* a text job ended completed after a call of it had failed
C34_Witness ==
    /\ pc = "completed"
    /\ doc.kind = "text"
    /\ \E i \in 1..Len(call[1]) : call[1][i] = "throw"
    /\ SlotsReleased

\* C35: every file name a translationComplete notification reports, for
\* every extension the worker accepts, .xls included, has an extension
\* downloadFile has a content type for, so that the file can be downloaded.
C35_CompletedIsDownloadable ==
    \A k \in 1..Len(events) :
        events[k].event = "translationComplete" =>
            /\ ~InvalidName(events[k].data.fileName)
            /\ ContentTypeOf(ToLowerCase(ExtName(events[k].data.fileName)))
                   # << >>

\* a CSV job whose file parses to no record
NoRecordCsv ==
    /\ LoweredExtension = << ".", "c", "s", "v" >>
    /\ Len(doc.table.rows) = 0

\* C37: a CSV input that parses to no data record, a header row alone or an
\* empty file, makes processCsv raise before any translation call: the job
\* ends failed with one translationFailed notification and writes no
\* output file.
C37_NoRecordsFailsEarly ==
    NoRecordCsv =>
        /\ pc \in {"start", "extract", "failed"}
        /\ \A u \in Units : \A i \in 1..Len(posts[u]) : posts[u][i] = 0
        /\ \A u \in Units : \A i \in 1..Len(call[u]) : call[u][i] = "queued"
        /\ files = << >>
        /\ outputBuffer.format = "none"
        /\ pc = "failed" =>
             /\ result.kind = "raised"
             /\ Len(events) = 1
             /\ events[1].event = "translationFailed"
             /\ events[1].to = job.socketId
             /\ events[1].data.jobId = job.id
             /\ events[1].data.reason = result.error.message
        /\ pc # "failed" => events = << >>

\* a CSV file of a header row alone has failed on taking the keys of its
\* first record
C37_Witness ==
    /\ NoRecordCsv
    /\ doc.table.header = << KeyName >>
    /\ Len(doc.units[1]) = 1
    /\ pc = "failed"
    /\ result.error.message = << "Cannot convert undefined or null to object" >>

\* C38: when two downloads of the same file overlap, no request raises an
\* error that nothing handles, and once both responses have closed the file
\* is deleted.
C38_OverlapHandled ==
    \A n \in overlapped :
        /\ n \notin uncaught
        /\ (open[n] = 0 /\ n \in closedNames) => n \notin dir

====
